---- MODULE Spec2Model ----
(***************************************************************************)
(* A state-machine model of SimRT: the preemptive speed-ranked processor   *)
(* platform (simRT/core/processor.py), the job and task processes          *)
(* (simRT/core/job.py, simRT/core/task.py), the simulator facade           *)
(* (simRT/core/model.py), the G-EDF sufficient test                        *)
(* (simrt/utils/schedulability_test.py) and the schedulability analyzer    *)
(* (simrt/utils/schedulability_analyzer.py).                               *)
(*                                                                         *)
(* Virtual time, execution amounts and priorities are exact rationals      *)
(* <<numerator, denominator>> in lowest terms; the event engine is the     *)
(* discrete-event kernel the code runs on: a queue ordered by              *)
(* (time, priority, insertion number), processes resumed by callbacks.     *)
(***************************************************************************)
EXTENDS Integers, Sequences, FiniteSets, TLC

VARIABLES
    speed_list,     \* PlatformInfo.speed_list (non-increasing)
    taskinfos,      \* the TaskInfo records handed to the Simulator
    now,            \* Environment.now
    eid,            \* Environment._eid, the insertion counter of the event queue
    queue,          \* Environment._queue, kept in pop order
    users,          \* ProcessorPlatform.users (request ids)
    put_queue,      \* ProcessorPlatform.put_queue (request ids)
    reqs,           \* every ProcessorRequest created so far
    jobs,           \* every Job created so far
    tasks,          \* the PeriodicTask processes
    err,            \* a programming error raised inside a step ("none" if none)
    run_pc,         \* position of the caller: in Simulator.run, or using the platform
    run_i,          \* loop variable i of Simulator.run
    run_until,      \* local until of Simulator.run
    run_result,     \* what Simulator.run returned or raised
    sufficient_test, \* SchedulabilityAnalyzer.sufficient_test (a test double or "None")
    exact_test,     \* SchedulabilityAnalyzer.exact_test (a test double or "None")
    an_pc,          \* position inside SchedulabilityAnalyzer.analyze
    suff_test_result, \* local suff_test_result of analyze
    exact_test_result, \* local exact_test_result of analyze
    an_calls,       \* the calls the test doubles received during the current analyze
    an_return,      \* what the last call of the analyzer returned or raised
    twin,           \* a second Simulator built from the same taskinfos and platform
    db,             \* the sqlite database of TaskStorage and the outcome of the last call
    ctor,           \* the last constructor or add_task call: its argument and outcome
    fn              \* the last call of a function of the library: arguments and result

simVars == <<speed_list, taskinfos, now, eid, queue, users, put_queue, reqs, jobs,
             tasks, err, run_pc, run_i, run_until, run_result>>
anVars == <<sufficient_test, exact_test, an_pc, suff_test_result, exact_test_result,
            an_calls, an_return>>
vars == <<simVars, anVars, twin, db, ctor, fn>>

-----------------------------------------------------------------------------
(* Bounds of the model *)

MaxTasks == 3
MaxWcet == 2
MaxPeriod == 3
MaxReqs == 3
MaxPrio == 1
MaxTime == 1
MaxEvents == 5
MaxUntil == 2
MaxTwinTasks == 2
MaxTaskId == 2
MaxSpeed == 2
MaxCores == 2
MaxAdded == 2
DeltaDen == 2
DrawDen == 2
MaxUtilization == 2
MaxNumTask == 3
MaxWorkers == 2
MaxChunk == 2
MaxSets == 2
RateMax == 2
MaxCatalog == 3
MaxClients == 2
TargetDen == 4

-----------------------------------------------------------------------------
(* Exact arithmetic on SimTime values *)

RECURSIVE GCD(_, _)
GCD(a, b) == IF b = 0 THEN a ELSE GCD(b, a % b)

LCM(a, b) == (a * b) \div GCD(a, b)

Abs(x) == IF x < 0 THEN 0 - x ELSE x

Q(n, d) == LET g == GCD(Abs(n), d) IN <<n \div g, d \div g>>
QInt(k) == <<k, 1>>
NoneQ == <<0, 0>>
QAdd(a, b) == Q(a[1] * b[2] + b[1] * a[2], a[2] * b[2])
QSub(a, b) == Q(a[1] * b[2] - b[1] * a[2], a[2] * b[2])
QMul(a, b) == Q(a[1] * b[1], a[2] * b[2])
QDiv(a, b) == Q(a[1] * b[2], a[2] * b[1])
QLt(a, b) == a[1] * b[2] < b[1] * a[2]
QLe(a, b) == a[1] * b[2] <= b[1] * a[2]
QMax(a, b) == IF QLt(a, b) THEN b ELSE a
QFloor(a) == a[1] \div a[2]
QCeil(a) == 0 - ((0 - a[1]) \div a[2])

SetMax(S) == CHOOSE x \in S : \A y \in S : y <= x
Min(a, b) == IF a < b THEN a ELSE b

RemoveAt(s, i) == SubSeq(s, 1, i - 1) \o SubSeq(s, i + 1, Len(s))
InSeq(x, s) == \E i \in 1..Len(s) : s[i] = x
IndexOf(x, s) == CHOOSE i \in 1..Len(s) : s[i] = x /\ \A k \in 1..(i - 1) : s[k] # x
RemoveFirst(x, s) == IF InSeq(x, s) THEN RemoveAt(s, IndexOf(x, s)) ELSE s

-----------------------------------------------------------------------------
(* Processes and events of the engine *)

NoProc == <<"None", 0>>
TaskProc(t) == <<"Task", t>>
JobProc(j) == <<"Job", j>>

URGENT == 0
NORMAL == 1

NoCause == [type |-> "None", by |-> NoProc, usage_since |-> NoneQ,
            job |-> <<0, 0>>, deadline |-> NoneQ]

Event(kind, proc, rid, cause, ok) ==
    [time |-> NoneQ, prio |-> NORMAL, eid |-> 0, kind |-> kind, proc |-> proc,
     rid |-> rid, cause |-> cause, ok |-> ok]

\* a heap that pops the newest of the events of one instant and priority
EvBefore_lifo(x, e) ==
    \/ QLt(x.time, e.time)
    \/ x.time = e.time /\ x.prio < e.prio
    \/ x.time = e.time /\ x.prio = e.prio /\ x.eid > e.eid

\* heap order of Environment._queue: (time, priority, eid)
EvBefore(x, e) ==
    \/ QLt(x.time, e.time)
    \/ x.time = e.time /\ x.prio < e.prio
    \/ x.time = e.time /\ x.prio = e.prio /\ x.eid < e.eid

\* Environment.schedule(event, priority, delay)
schedule(w, ev, priority, delay) ==
    LET e == [ev EXCEPT !.time = QAdd(w.now, delay), !.prio = priority, !.eid = w.eid]
        k == Cardinality({i \in 1..Len(w.queue) : EvBefore(w.queue[i], e)})
    IN [w EXCEPT !.queue = SubSeq(@, 1, k) \o <<e>> \o SubSeq(@, k + 1, Len(@)),
                 !.eid = @ + 1]

\* an exception raised by the code that runs (the first one is kept)
raise(w, exc) == [w EXCEPT !.err = IF @ = "none" THEN exc ELSE @]

\* Process.is_alive: the process has not terminated
is_alive(w, p) ==
    IF p[1] = "Task" THEN w.tasks[p[2]].pc \in {"start", "yield_timeout"}
    ELSE IF p[1] = "Job" THEN w.jobs[p[2]].pc \in {"start", "yield_req", "yield_timeout"}
    ELSE p[1] = "Client"

\* Process.interrupt(cause): the Interruption event is scheduled URGENT; a
\* terminated target or the active process itself raises RuntimeError
interrupt(w, p, cause) ==
    IF ~is_alive(w, p) \/ p = w.active
    THEN raise(w, "RuntimeError")
    ELSE schedule(w, Event("Interruption", p, 0, cause, FALSE), URGENT, QInt(0))

-----------------------------------------------------------------------------
(* SortedQueue and ProcessorRequest *)

capacity == Len(speed_list)

\* ProcessorRequest.__lt__ on key = (priority, time, not preempt)
KeyLt(a, b) ==
    \/ QLt(a.priority, b.priority)
    \/ a.priority = b.priority /\ QLt(a.time, b.time)
    \/ a.priority = b.priority /\ a.time = b.time /\ a.preempt /\ ~b.preempt

\* ProcessorRequest.__le__
KeyLe(a, b) == ~KeyLt(b, a)

\* list.sort(): stable, by __lt__ (insertion of each element after the last
\* element that is not greater)
RECURSIVE StableSort(_, _)
StableSort(rs, s) ==
    IF s = <<>> THEN <<>>
    ELSE LET front == StableSort(rs, SubSeq(s, 1, Len(s) - 1))
             x == s[Len(s)]
             le == {i \in 1..Len(front) : ~KeyLt(rs[x], rs[front[i]])}
             k == IF le = {} THEN 0 ELSE SetMax(le)
         IN SubSeq(front, 1, k) \o <<x>> \o SubSeq(front, k + 1, Len(front))

\* SortedQueue.append without the maxlen test
SortedQueueAppend_unbounded(rs, q, item, maxlen) ==
    [q |-> StableSort(rs, Append(q, item)), raised |-> "none"]

\* SortedQueue.append(item); maxlen = 0 stands for maxlen = None
SortedQueueAppend(rs, q, item, maxlen) ==
    IF maxlen # 0 /\ Len(q) >= maxlen
    THEN [q |-> q, raised |-> "RuntimeError"]
    ELSE [q |-> StableSort(rs, Append(q, item)), raised |-> "none"]

\* an index that never falls inside users: no arrival displaces a holder
bisect_end(rs, a, x) == Len(a)

\* bisect.bisect_left(a, x): the index before the elements equal to x
bisect_left(rs, a, x) ==
    Cardinality({i \in 1..Len(a) : KeyLt(rs[a[i]], rs[x])})

\* bisect.bisect_right(a, x), by __lt__; returns a 0-based index
RECURSIVE BisectLoop(_, _, _, _, _)
BisectLoop(rs, a, x, lo, hi) ==
    IF lo < hi
    THEN LET mid == (lo + hi) \div 2
         IN IF KeyLt(rs[x], rs[a[mid + 1]])
            THEN BisectLoop(rs, a, x, lo, mid)
            ELSE BisectLoop(rs, a, x, mid + 1, hi)
    ELSE lo
\* bisect.bisect_right(a, x)
bisect_right(rs, a, x) == BisectLoop(rs, a, x, 0, Len(a))

is_preempted(w, r) ==
    w.reqs[r].triggered /\ ~InSeq(r, w.users) /\ ~InSeq(r, w.put_queue)
is_on_platform(w, r) ==
    w.reqs[r].triggered /\ InSeq(r, w.users) /\ ~InSeq(r, w.put_queue)
is_ready(w, r) ==
    ~w.reqs[r].triggered /\ ~InSeq(r, w.users) /\ InSeq(r, w.put_queue)

\* speed that always reads the first entry of speed_list
speed_first(w, r) ==
    IF is_on_platform(w, r) THEN [tag |-> "value", v |-> speed_list[1]]
    ELSE IF is_preempted(w, r) THEN [tag |-> "None", v |-> 0]
    ELSE IF is_ready(w, r) THEN [tag |-> "value", v |-> 0]
    ELSE [tag |-> "AssertionError", v |-> 0]

\* ProcessorRequest.speed: a number, None, or the failed assertion
speed(w, r) ==
    IF is_on_platform(w, r)
    THEN [tag |-> "value", v |-> speed_list[IndexOf(r, w.users)]]
    ELSE IF is_preempted(w, r) THEN [tag |-> "None", v |-> 0]
    ELSE IF is_ready(w, r) THEN [tag |-> "value", v |-> 0]
    ELSE [tag |-> "AssertionError", v |-> 0]

-----------------------------------------------------------------------------
(* ProcessorPlatform *)

Preempted(by, usage_since) ==
    [type |-> "Preempted", by |-> by, usage_since |-> usage_since,
     job |-> <<0, 0>>, deadline |-> NoneQ]

\* a loop that interrupts nobody
InterruptAll_none(w, slice, by) == w

\* for interrupted in <slice>: if interrupted.proc is not None: interrupt(Preempted(...));
\* an interrupt that raises ends the loop
RECURSIVE InterruptAll(_, _, _)
InterruptAll(w, slice, by) ==
    IF slice = <<>> \/ w.err # "none" THEN w
    ELSE InterruptAll(
           IF w.reqs[Head(slice)].proc # NoProc
           THEN interrupt(w, w.reqs[Head(slice)].proc,
                          Preempted(by, w.reqs[Head(slice)].usage_since))
           ELSE w,
           Tail(slice), by)

\* Event.succeed() of a request or release: triggered, scheduled NORMAL now
succeed_request(w, r) ==
    schedule([w EXCEPT !.reqs[r].triggered = TRUE],
             Event("Request", w.reqs[r].proc, r, NoCause, TRUE), NORMAL, QInt(0))

\* users.append(event), event.usage_since = now, event.succeed()
users_append(w, r, appended) ==
    IF appended.raised # "none" THEN raise(w, appended.raised)
    ELSE succeed_request([w EXCEPT !.users = appended.q,
                                   !.reqs[r].usage_since = w.now], r)

\* Resource._do_put (the super() call of ProcessorPlatform._do_put); returns None
Resource_do_put(w, r) ==
    IF Len(w.users) < capacity
    THEN users_append(w, r, SortedQueueAppend(w.reqs, w.users, r, capacity))
    ELSE w

\* an eviction that pops the first holder
do_put_evict_first(w, r, index) ==
    IF Len(w.users) = capacity /\ index < capacity /\ w.reqs[r].preempt
    THEN [w EXCEPT !.users = Tail(@)]
    ELSE w

\* lines 255-257: a full users and a preempting event: the last holder is popped
do_put_evict(w, r, index) ==
    IF Len(w.users) = capacity /\ index < capacity /\ w.reqs[r].preempt
    THEN [w EXCEPT !.users = SubSeq(@, 1, Len(@) - 1)]
    ELSE w

\* lines 255-259, reached unless an interrupt of the loop above raised
do_put_grant(w, r, index) ==
    IF w.err # "none" THEN w ELSE Resource_do_put(do_put_evict(w, r, index), r)

\* lines 220-259, with index = bisect_right(self.users, event)
do_put_at(w, r, index) ==
    IF index >= capacity
    THEN [w |-> w, proceed |-> FALSE]
    ELSE [w |-> do_put_grant(
                  InterruptAll(w, SubSeq(w.users, index + 1, Len(w.users)),
                               w.reqs[r].proc),
                  r, index),
          proceed |-> FALSE]

\* ProcessorPlatform._do_put(event): the state after it and its return value
\* (False, or the None of Resource._do_put, which is falsy as well)
do_put(w, r) == do_put_at(w, r, bisect_right(w.reqs, w.users, r))

\* BaseResource._trigger_put, after _do_put(put_event): a triggered request is
\* popped from put_queue, an untriggered one is stepped over
after_do_put(res, put_event, idx) ==
    IF res.w.reqs[put_event].triggered
    THEN [w |-> [res.w EXCEPT !.put_queue = RemoveAt(@, idx + 1)], idx |-> idx,
          proceed |-> res.proceed]
    ELSE [w |-> res.w, idx |-> idx + 1, proceed |-> res.proceed]

\* BaseResource._trigger_put: walk put_queue from the left; a falsy return of
\* _do_put stops the walk
RECURSIVE trigger_put_loop(_)
trigger_put_loop(st) ==
    IF st.idx >= Len(st.w.put_queue) \/ ~st.proceed \/ st.w.err # "none" THEN st.w
    ELSE trigger_put_loop(
           after_do_put(do_put(st.w, st.w.put_queue[st.idx + 1]),
                        st.w.put_queue[st.idx + 1], st.idx))
\* _trigger_put that walks nothing
trigger_put_none(w) == w

\* BaseResource._trigger_put(get_event)
trigger_put(w) == trigger_put_loop([w |-> w, idx |-> 0, proceed |-> TRUE])

\* ProcessorRequest.__init__
ProcessorRequest(w, priority, preempt) ==
    [priority |-> priority, preempt |-> preempt, time |-> w.now,
     proc |-> w.active, triggered |-> FALSE, usage_since |-> NoneQ]

\* a put_queue that takes each new request at its front
put_init_front(w, r) == trigger_put([w EXCEPT !.put_queue = <<r>> \o @])

\* Put.__init__: put_queue.append(self), then _trigger_put
put_init(w, r) ==
    trigger_put([w EXCEPT !.put_queue = SortedQueueAppend(w.reqs, @, r, 0).q])

\* ProcessorPlatform.request(priority, preempt)
request(w, priority, preempt) ==
    put_init([w EXCEPT !.reqs = Append(@, ProcessorRequest(w, priority, preempt))],
             Len(w.reqs) + 1)

\* Resource._do_get (the super() call of ProcessorPlatform._do_get)
Resource_do_get(w, r) ==
    schedule([w EXCEPT !.users = RemoveFirst(r, @)],
             Event("Release", w.active, r, NoCause, TRUE), NORMAL, QInt(0))

\* the super() call of _do_get, reached unless an interrupt raised
do_get_super(w, r) == IF w.err # "none" THEN w ELSE Resource_do_get(w, r)

\* a _do_get that tells nobody
do_get_quiet(w, r) == do_get_super(w, r)

\* ProcessorPlatform._do_get(event)
do_get(w, r) ==
    do_get_super(
      IF is_on_platform(w, r)
      THEN InterruptAll(w, SubSeq(w.users, IndexOf(r, w.users) + 1, Len(w.users)),
                        w.reqs[r].proc)
      ELSE w,
      r)

\* ProcessorPlatform.release(request): Get.__init__ appends to get_queue and
\* calls _trigger_get, which runs _do_get and pops the triggered release
release(w, r) == do_get(w, r)

\* Put.cancel(): an untriggered request leaves put_queue (list.remove raises
\* ValueError when it is not there)
cancel(w, r) ==
    IF ~w.reqs[r].triggered
    THEN IF InSeq(r, w.put_queue)
         THEN [w EXCEPT !.put_queue = RemoveFirst(r, @)]
         ELSE raise(w, "ValueError")
    ELSE w

\* Request.__exit__: cancel, then release (not reached when cancel raised)
release_unless_raised(w, r) == IF w.err # "none" THEN w ELSE release(w, r)
request_exit(w, r) == release_unless_raised(cancel(w, r), r)

-----------------------------------------------------------------------------
(* Job.activate_job: one operator per stretch of straight-line code; the   *)
(* job's pc names the line the generator is at                             *)

wcet_of(w, j) == QInt(taskinfos[w.jobs[j].task].wcet)

\* Job.remaining_execution
remaining_execution(w, j) ==
    QMax(QSub(wcet_of(w, j), w.jobs[j].accumulated_execution), QInt(0))

\* Process termination: the process event is scheduled NORMAL
terminate(w, p, ok, cause) == schedule(w, Event("Process", p, 0, cause, ok), NORMAL, QInt(0))

MissCause(w, j) ==
    [type |-> "Miss", by |-> JobProc(j), usage_since |-> NoneQ,
     job |-> <<taskinfos[w.jobs[j].task].id, w.jobs[j].k>>,
     deadline |-> w.jobs[j].absolute_deadline]

\* the deadline test with >= in place of >
misses_deadline_ge(w, j) == QLe(w.jobs[j].absolute_deadline, w.now)

\* line 112: the completion is late
misses_deadline(w, j) == QLt(w.jobs[j].absolute_deadline, w.now)

\* a completion that never interrupts the task
job_miss_silent(w, j) ==
    terminate([w EXCEPT !.jobs[j].pc = "finished"], JobProc(j), TRUE, NoCause)

\* lines 112-116: self.task.interrupt(...); Interruption.__init__ raises
\* RuntimeError inside the job when the task has terminated
job_miss(w, j) ==
    IF ~misses_deadline(w, j)
    THEN terminate([w EXCEPT !.jobs[j].pc = "finished"], JobProc(j), TRUE, NoCause)
    ELSE IF is_alive(w, TaskProc(w.jobs[j].task))
    THEN terminate(
           [schedule(w, Event("Interruption", TaskProc(w.jobs[j].task), 0,
                              MissCause(w, j), FALSE), URGENT, QInt(0))
              EXCEPT !.jobs[j].pc = "finished"],
           JobProc(j), TRUE, NoCause)
    ELSE terminate([w EXCEPT !.jobs[j].pc = "failed"], JobProc(j), FALSE,
                   [NoCause EXCEPT !.type = "RuntimeError"])

\* lines 106-110: the assertion and _end_time, then the deadline check
job_finish(w, j) ==
    job_miss([w EXCEPT !.jobs[j].end_time = w.now,
                       !.err = IF @ = "none"
                                  /\ w.jobs[j].accumulated_execution # wcet_of(w, j)
                               THEN "AssertionError" ELSE @], j)

\* line 62: yield req, the request just made
job_yield_req(w, j) ==
    [w EXCEPT !.jobs[j].req = Len(w.reqs), !.jobs[j].pc = "yield_req",
              !.jobs[j].target = Len(w.reqs)]

\* a job that requests with priority 0 whatever its deadline
job_loop_fifo(w, j) ==
    IF QLt(QInt(0), remaining_execution(w, j))
    THEN job_yield_req(request(w, QInt(0), TRUE), j)
    ELSE [w EXCEPT !.jobs[j].pc = "finish"]

\* lines 54-62: the outer loop test, then the request and yield req
job_loop(w, j) ==
    IF QLt(QInt(0), remaining_execution(w, j))
    THEN job_yield_req(request(w, w.jobs[j].absolute_deadline, TRUE), j)
    ELSE [w EXCEPT !.jobs[j].pc = "finish"]

\* lines 63-69: an Interrupt at yield req
job_except_req(w, j) ==
    IF ~is_on_platform(w, w.jobs[j].req)
    THEN [w EXCEPT !.jobs[j].pc = "exit_with"]
    ELSE [w EXCEPT !.jobs[j].pc = "granted"]

\* lines 71-74
job_granted(w, j) ==
    [w EXCEPT !.jobs[j].cpu = w.jobs[j].req,
              !.jobs[j].start_time = IF @ = NoneQ THEN w.now ELSE @,
              !.jobs[j].pc = "inner",
              !.err = IF @ = "none" /\ w.jobs[j].cpu # 0 THEN "AssertionError" ELSE @]

\* a timeout that takes every processor for one of speed 1
job_yield_timeout_unit(w, j, sp) ==
    [schedule(w, Event("Timeout", JobProc(j), 0, NoCause, TRUE), NORMAL,
              remaining_execution(w, j))
       EXCEPT !.jobs[j].execution_speed = sp.v,
              !.jobs[j].start = w.now,
              !.jobs[j].pc = "yield_timeout",
              !.jobs[j].target = w.eid]

\* line 83: yield env.timeout(remaining_execution / execution_speed)
job_yield_timeout(w, j, sp) ==
    [schedule(w, Event("Timeout", JobProc(j), 0, NoCause, TRUE), NORMAL,
              QDiv(remaining_execution(w, j), QInt(sp.v)))
       EXCEPT !.jobs[j].execution_speed = sp.v,
              !.jobs[j].start = w.now,
              !.jobs[j].pc = "yield_timeout",
              !.jobs[j].target = w.eid]

\* an inner loop that is left without self.cpu = None
job_inner_keeps_cpu(w, j) ==
    IF is_on_platform(w, w.jobs[j].cpu) /\ QLt(QInt(0), remaining_execution(w, j))
    THEN IF speed(w, w.jobs[j].cpu).tag = "value"
         THEN job_yield_timeout(w, j, speed(w, w.jobs[j].cpu))
         ELSE raise(w, "AssertionError")
    ELSE [w EXCEPT !.jobs[j].pc = "exit_with"]

\* lines 78-85 and 104: the inner loop test; the timeout, or cpu = None
job_inner(w, j) ==
    IF is_on_platform(w, w.jobs[j].cpu) /\ QLt(QInt(0), remaining_execution(w, j))
    THEN IF speed(w, w.jobs[j].cpu).tag = "value"
         THEN job_yield_timeout(w, j, speed(w, w.jobs[j].cpu))
         ELSE raise(w, "AssertionError")
    ELSE [w EXCEPT !.jobs[j].cpu = 0, !.jobs[j].pc = "exit_with"]

\* a with block that is left without Request.__exit__
job_exit_with_leak(w, j) == [w EXCEPT !.jobs[j].pc = "loop"]

\* leaving the with block (after line 104, or by the continue of line 69):
\* Request.__exit__, then back to the outer loop test
job_exit_with(w, j) ==
    [request_exit(w, w.jobs[j].req) EXCEPT !.jobs[j].pc = "loop"]

\* a completion that credits more than the job's wcet
job_after_timeout_over(w, j) ==
    [w EXCEPT !.jobs[j].accumulated_execution = QAdd(wcet_of(w, j), QInt(1)),
              !.jobs[j].pc = "log"]

\* line 86: the timeout fired
job_after_timeout(w, j) ==
    [w EXCEPT !.jobs[j].accumulated_execution = wcet_of(w, j), !.jobs[j].pc = "log"]

\* an Interrupt at yield timeout that forgets the work done so far
job_except_timeout_forget(w, j) == [w EXCEPT !.jobs[j].pc = "log"]

\* lines 87-90: an Interrupt at yield timeout
job_except_timeout(w, j) ==
    [w EXCEPT !.jobs[j].accumulated_execution =
                  QAdd(@, QMul(QSub(w.now, w.jobs[j].start),
                               QInt(w.jobs[j].execution_speed))),
              !.jobs[j].pc = "log"]

\* lines 93-102: the log entry
job_log(w, j) ==
    IF QLt(QInt(0), remaining_execution(w, j))
    THEN [w EXCEPT !.jobs[j].logs =
                     Append(@, [arrival |-> w.jobs[j].arrival_time,
                                start |-> w.jobs[j].start, end |-> w.now,
                                speed |-> w.jobs[j].execution_speed,
                                next_speed |-> speed(w, w.jobs[j].cpu),
                                remaining |-> remaining_execution(w, j)]),
                  !.jobs[j].pc = "inner",
                  !.err = IF @ = "none" /\ speed(w, w.jobs[j].cpu).tag = "AssertionError"
                          THEN "AssertionError" ELSE @]
    ELSE [w EXCEPT !.jobs[j].logs =
                     Append(@, [arrival |-> w.jobs[j].arrival_time,
                                start |-> w.jobs[j].start, end |-> w.now,
                                speed |-> w.jobs[j].execution_speed,
                                next_speed |-> [tag |-> "absent", v |-> 0],
                                remaining |-> NoneQ]),
                  !.jobs[j].pc = "inner"]

\* the stretch of code at the job's pc
job_block(w, j) ==
    IF w.jobs[j].pc = "loop" THEN job_loop(w, j)
    ELSE IF w.jobs[j].pc = "except_req" THEN job_except_req(w, j)
    ELSE IF w.jobs[j].pc = "granted" THEN job_granted(w, j)
    ELSE IF w.jobs[j].pc = "inner" THEN job_inner(w, j)
    ELSE IF w.jobs[j].pc = "exit_with" THEN job_exit_with(w, j)
    ELSE IF w.jobs[j].pc = "after_timeout" THEN job_after_timeout(w, j)
    ELSE IF w.jobs[j].pc = "except_timeout" THEN job_except_timeout(w, j)
    ELSE IF w.jobs[j].pc = "log" THEN job_log(w, j)
    ELSE job_finish(w, j)

Suspended == {"start", "yield_req", "yield_timeout", "finished", "failed"}

\* the generator runs until its next yield, its end, or an error
RECURSIVE activate_job(_, _)
activate_job(w, j) ==
    IF w.jobs[j].pc \in Suspended \/ w.err # "none" THEN w
    ELSE activate_job(job_block(w, j), j)

\* Process._resume of a job: where the generator continues
job_resume(w, j, thrown) ==
    activate_job(
      [w EXCEPT !.jobs[j].pc =
                  IF @ = "start" THEN (IF thrown THEN "failed" ELSE "loop")
                  ELSE IF @ = "yield_req"
                       THEN (IF thrown THEN "except_req" ELSE "granted")
                  ELSE (IF thrown THEN "except_timeout" ELSE "after_timeout"),
                !.err = IF @ = "none" /\ w.jobs[j].pc = "start" /\ thrown
                        THEN "Interrupt" ELSE @],
      j)

-----------------------------------------------------------------------------
(* PeriodicTask.create_job and Job.__init__ *)

\* Job.__init__, after Process.__init__
JobRecord(w, t) ==
    [task |-> t, k |-> w.tasks[t].job_id_generator, pc |-> "start",
     req |-> 0, cpu |-> 0, start_time |-> NoneQ, end_time |-> NoneQ,
     arrival_time |-> w.now,
     absolute_deadline |-> QAdd(w.now, QInt(taskinfos[t].deadline)),
     accumulated_execution |-> QInt(0), execution_speed |-> 0,
     start |-> NoneQ, target |-> 0, logs |-> <<>>]

\* Job(task): Process.__init__ schedules Initialize URGENT, then the fields
new_job(w, t) ==
    [schedule(w, Event("Initialize", JobProc(Len(w.jobs) + 1), 0, NoCause, TRUE),
              URGENT, QInt(0))
       EXCEPT !.jobs = Append(@, JobRecord(w, t)),
              !.tasks[t].job_id_generator = @ + 1,
              !.tasks[t].jobs = Append(@, Len(w.jobs) + 1)]

\* Job.id, f"{task.id}_{k}", as the pair of its two numbers
job_id(w, j) == <<taskinfos[w.jobs[j].task].id, w.jobs[j].k>>

\* a task that sleeps for its relative deadline instead of its period
task_yield_timeout_deadline(w, t) ==
    [schedule(w, Event("Timeout", TaskProc(t), 0, NoCause, TRUE), NORMAL,
              QInt(taskinfos[t].deadline))
       EXCEPT !.tasks[t].pc = "yield_timeout", !.tasks[t].target = w.eid]

\* line 92: yield self.env.timeout(self.period)
task_yield_timeout(w, t) ==
    [schedule(w, Event("Timeout", TaskProc(t), 0, NoCause, TRUE), NORMAL,
              QInt(taskinfos[t].period))
       EXCEPT !.tasks[t].pc = "yield_timeout", !.tasks[t].target = w.eid]

\* lines 89-92: one turn of the loop, up to the yield
create_job(w, t) == task_yield_timeout(new_job(w, t), t)

\* Process._resume of a task: an Interrupt is not caught and ends the task
task_resume(w, t, thrown, cause) ==
    IF thrown
    THEN terminate([w EXCEPT !.tasks[t].pc = "failed", !.tasks[t].value = cause],
                   TaskProc(t), FALSE, cause)
    ELSE create_job(w, t)

-----------------------------------------------------------------------------
(* Environment.step: the callbacks of the popped event *)

resume_active(w, p, thrown, cause) ==
    IF p[1] = "Task" THEN task_resume(w, p[2], thrown, cause)
    ELSE job_resume(w, p[2], thrown)

resume(w, p, thrown, cause) ==
    [resume_active([w EXCEPT !.active = p], p, thrown, cause) EXCEPT !.active = NoProc]

target_of(w, p) == IF p[1] = "Task" THEN w.tasks[p[2]].target ELSE w.jobs[p[2]].target
pc_of(w, p) == IF p[1] = "Task" THEN w.tasks[p[2]].pc ELSE w.jobs[p[2]].pc

\* the popped event has a process among its callbacks
wakes(w, e) ==
    IF e.kind = "Initialize" THEN TRUE
    ELSE IF e.kind = "Timeout"
         THEN pc_of(w, e.proc) = "yield_timeout" /\ target_of(w, e.proc) = e.eid
    ELSE IF e.kind = "Request"
         THEN e.proc # NoProc /\ pc_of(w, e.proc) = "yield_req"
              /\ target_of(w, e.proc) = e.rid
    ELSE IF e.kind = "Interruption" THEN is_alive(w, e.proc)
    ELSE FALSE

\* a Release event calls _trigger_put; a Request event calls _trigger_get, which
\* finds get_queue empty; then the waiting process, if any, is resumed
callbacks(w, e) ==
    IF e.kind = "Release" THEN trigger_put(w)
    ELSE IF wakes(w, e) THEN resume(w, e.proc, e.kind = "Interruption", e.cause)
    ELSE w

\* heappop, then the callbacks
step(w) == callbacks([w EXCEPT !.now = Head(w.queue).time, !.queue = Tail(@)],
                     Head(w.queue))

-----------------------------------------------------------------------------
(* The G-EDF sufficient test *)

\* TaskInfo.density
density(tau) == Q(tau.wcet, tau.deadline)

\* TaskInfo.utilization
utilization(tau) == Q(tau.wcet, tau.period)

DefaultSamplingRate == <<1, 100000>>

QSetMax(S) == CHOOSE x \in S : \A y \in S : QLe(y, x)

RECURSIVE SumFrom(_, _)
\* sum(speed_list[i:]) for a 0-based i
SumFrom(sl, i) == IF i >= Len(sl) THEN 0 ELSE sl[i + 1] + SumFrom(sl, i + 1)

\* PlatformInfo.S_m
S_m(sl) == SumFrom(sl, 0)

RECURSIVE LcmCeilPeriods(_, _)
\* math.lcm over ceil(period) of the first n tasks, from 1
LcmCeilPeriods(Gamma, n) ==
    IF n = 0 THEN 1 ELSE LCM(LcmCeilPeriods(Gamma, n - 1), Gamma[n].period)

\* a DBF whose floor is a ceiling
DBF_ceil(tau, delta_t) ==
    IF QLe(QInt(tau.deadline), delta_t)
    THEN (QCeil(QDiv(QSub(delta_t, QInt(tau.deadline)), QInt(tau.period))) + 1)
         * tau.wcet
    ELSE tau.wcet

\* GlobalEDFTest._DBF(tau, delta_t)
DBF(tau, delta_t) ==
    IF QLe(QInt(tau.deadline), delta_t)
    THEN LET n == (QFloor(QDiv(QSub(delta_t, QInt(tau.deadline)),
                               QInt(tau.period))) + 1) * tau.wcet
         IN IF n < 0 THEN 0 ELSE n
    ELSE tau.wcet

RECURSIVE SumDBF(_, _, _)
SumDBF(Gamma, n, delta_t) ==
    IF n = 0 THEN 0
    ELSE SumDBF(Gamma, n - 1, delta_t) + DBF(Gamma[n], QInt(delta_t))

RECURSIVE LoadLoop(_, _, _, _, _)
\* for delta_t in range(delta_t, hyper_period + 1, step): load = max(load, ...)
LoadLoop(Gamma, delta_t, hyper_period, step_, load) ==
    IF delta_t > hyper_period THEN load
    ELSE LoadLoop(Gamma, delta_t + step_, hyper_period, step_,
                  QMax(load, Q(SumDBF(Gamma, Len(Gamma), delta_t), delta_t)))

\* a load that is never accumulated
LOAD_zero(Gamma, implicit_deadline, sampling_rate) == QInt(0)

\* GlobalEDFTest._LOAD(Gamma, implicit_deadline, sampling_rate)
LOAD(Gamma, implicit_deadline, sampling_rate) ==
    LET hyper_period == LcmCeilPeriods(Gamma, Len(Gamma))
    IN IF implicit_deadline
       THEN Q(SumDBF(Gamma, Len(Gamma), hyper_period), hyper_period)
       ELSE LoadLoop(Gamma, 1, hyper_period,
                     QCeil(QMul(QInt(hyper_period), sampling_rate)), QInt(0))

\* GlobalEDFTest.test(taskset, processors): "True", "False", or the exception
GlobalEDFTest(taskset, sl, sampling_rate) ==
    IF ~(Len(sl) > 1) THEN "AssertionError"
    ELSE LET varphi_max == QSetMax({density(taskset[i]) : i \in 1..Len(taskset)})
             lambda_pi == QSetMax({Q(SumFrom(sl, i + 1), sl[i + 1]) :
                                     i \in 0..(Len(sl) - 2)})
             mu == QSub(QInt(S_m(sl)), QMul(lambda_pi, varphi_max))
             vs == {i + 1 : i \in {k \in 0..(Len(sl) - 1) : QLt(QInt(SumFrom(sl, k)), mu)}}
             implicit_deadline == \A i \in 1..Len(taskset) :
                                     taskset[i].deadline = taskset[i].period
         IN IF vs = {} THEN "ValueError"
            ELSE LET v == SetMax(vs)
                     load == LOAD(taskset, implicit_deadline, sampling_rate)
                 IN IF QLe(load, QSub(mu, QMul(QInt(v), varphi_max)))
                    THEN "True" ELSE "False"

-----------------------------------------------------------------------------
(* The simulator *)

World == [now |-> now, eid |-> eid, queue |-> queue, users |-> users,
          put_queue |-> put_queue, reqs |-> reqs, jobs |-> jobs, tasks |-> tasks,
          err |-> err, active |-> NoProc]

SetWorld(w) ==
    /\ now' = w.now
    /\ eid' = w.eid
    /\ queue' = w.queue
    /\ users' = w.users
    /\ put_queue' = w.put_queue
    /\ reqs' = w.reqs
    /\ jobs' = w.jobs
    /\ tasks' = w.tasks
    /\ err' = w.err

\* Simulator.hyper_period, as add_task accumulates it
hyper_period == LcmCeilPeriods(taskinfos, Len(taskinfos))

Platforms == {<<1>>, <<1, 1>>, <<2, 1>>}

TaskInfos ==
    {[wcet |-> c, deadline |-> d, period |-> p] :
        c \in 1..MaxWcet, d \in 1..MaxPeriod, p \in 1..MaxPeriod}

TaskInfoOk(ti) == ti.deadline <= ti.period

WithIds(s) == [i \in 1..Len(s) |->
                 [id |-> i - 1, wcet |-> s[i].wcet, deadline |-> s[i].deadline,
                  period |-> s[i].period]]

TaskSets ==
    UNION {{WithIds(s) : s \in {x \in [1..n -> TaskInfos] :
                                  \A i \in 1..n : TaskInfoOk(x[i])}} : n \in 1..MaxTasks}

RECURSIVE InitTasks(_, _)
\* Simulator.__init__: add_task for each TaskInfo; each task is a Process,
\* whose constructor schedules its Initialize event
InitTasks(w, n) ==
    IF n = 0 THEN w
    ELSE LET w1 == InitTasks(w, n - 1)
         IN [schedule(w1, Event("Initialize", TaskProc(n), 0, NoCause, TRUE),
                      URGENT, QInt(0))
               EXCEPT !.tasks = Append(@, [pc |-> "start", target |-> 0,
                                           job_id_generator |-> 0, jobs |-> <<>>,
                                           value |-> NoCause])]

EmptyWorld == [now |-> QInt(0), eid |-> 0, queue |-> <<>>, users |-> <<>>,
               put_queue |-> <<>>, reqs |-> <<>>, jobs |-> <<>>, tasks |-> <<>>,
               err |-> "none", active |-> NoProc]

\* no test configured: self.sufficient_test = None
NoTest == [class |-> "None", returns |-> "None"]

\* the outcome of a call of the analyzer: nothing yet, an exception, or the dict
NoReturn == [raised |-> "none", returned |-> FALSE,
             exact_test_result |-> "None", suff_test_result |-> "None"]
Raised(exc) == [NoReturn EXCEPT !.raised = exc]

\* a record whose two fields are exchanged
ResultDict_swapped(exact, suff) ==
    [raised |-> "none", returned |-> TRUE,
     exact_test_result |-> suff, suff_test_result |-> exact]

\* the dict analyze returns
ResultDict(exact, suff) == [raised |-> "none", returned |-> TRUE,
                            exact_test_result |-> exact, suff_test_result |-> suff]

AnalyzerIdle ==
    /\ sufficient_test = NoTest
    /\ exact_test = NoTest
    /\ an_pc = "idle"
    /\ suff_test_result = "None"
    /\ exact_test_result = "None"
    /\ an_calls = <<>>
    /\ an_return = NoReturn

\* no constructor has been called by the user of the library
NoCall == [op |-> "none", speeds |-> <<>>, task |-> <<>>, raised |-> "none"]

\* no function of the library has been called
NoFn == [op |-> "none", arg |-> <<>>, result |-> "none"]

\* TaskStorage.create_tables on a new file: the tables are empty
EmptyDb ==
    [Task |-> {}, call |-> [op |-> "create_tables", id |-> 0], raised |-> "none"]

\* a second Simulator right after its construction from the same arguments
NewTwin ==
    [w |-> InitTasks(EmptyWorld, Len(taskinfos)), run_pc |-> "idle", run_i |-> 0,
     run_until |-> NoneQ, run_result |-> "None"]

\* no second Simulator
NoTwin ==
    [w |-> EmptyWorld, run_pc |-> "absent", run_i |-> 0, run_until |-> NoneQ,
     run_result |-> "None"]

Init ==
    /\ speed_list \in Platforms
    /\ taskinfos \in TaskSets
    /\ LET w == InitTasks(EmptyWorld, Len(taskinfos))
       IN /\ now = w.now /\ eid = w.eid /\ queue = w.queue /\ users = w.users
          /\ put_queue = w.put_queue /\ reqs = w.reqs /\ jobs = w.jobs
          /\ tasks = w.tasks /\ err = w.err
    /\ run_pc = "idle"
    /\ run_i = 0
    /\ run_until = NoneQ
    /\ run_result = "None"
    /\ AnalyzerIdle
    /\ twin = NoTwin
    /\ db = EmptyDb
    /\ ctor = NoCall
    /\ fn = NoFn

\* env.run(until=i): the until event is scheduled URGENT at i
env_run(w, i) ==
    schedule(w, Event("Until", NoProc, 0, NoCause, TRUE), URGENT, QSub(QInt(i), w.now))

\* the values of the argument until: None, the multiples of 1/2 up to MaxUntil,
\* and a value above the hyper-period
Untils ==
    {NoneQ} \cup {Q(n, 2) : n \in 1..(2 * MaxUntil)} \cup {QInt(hyper_period + 1)}

\* lines 48-49: the local until of Simulator.run
clamp_until(until) ==
    IF until = NoneQ \/ QLt(QInt(hyper_period), until) THEN QInt(hyper_period)
    ELSE until

\* Simulator.run(until): lines 48-59, up to the first env.run; the caller
\* passes None or a time after the current one, and calls again only after
\* a run that returned True
RunStart ==
    /\ run_pc = "idle" \/ (run_pc = "done" /\ run_result = "True")
    /\ \E until \in Untils :
          /\ until = NoneQ \/ QLt(now, until)
          /\ run_until' = clamp_until(until)
          /\ IF QFloor(now) + 1 <= QCeil(clamp_until(until))
             THEN /\ SetWorld(env_run(World, QFloor(now) + 1))
                  /\ run_i' = QFloor(now) + 1
                  /\ run_pc' = "running"
                  /\ run_result' = "None"
             ELSE /\ run_pc' = "done"
                  /\ run_result' = "True"
                  /\ UNCHANGED <<now, eid, queue, users, put_queue, reqs, jobs, tasks,
                                 err, run_i>>
    /\ UNCHANGED <<speed_list, taskinfos, anVars, twin, db, ctor, fn>>

\* one Environment.step(); a programming error raised by it leaves
\* Simulator.run as that exception
StepEvent ==
    /\ SetWorld(step(World))
    /\ IF step(World).err # "none"
       THEN run_pc' = "done" /\ run_result' = step(World).err
       ELSE UNCHANGED <<run_pc, run_result>>
    /\ UNCHANGED <<speed_list, taskinfos, run_i, run_until, anVars, twin, db, ctor, fn>>

Popped(kind) == run_pc = "running" /\ queue # <<>> /\ Head(queue).kind = kind

\* the Initialize event of a new process: the generator runs to its first yield
StepInitialize ==
    /\ Popped("Initialize")
    /\ StepEvent

\* a Timeout event: the process waiting for it, if it still does, is resumed
StepTimeout ==
    /\ Popped("Timeout")
    /\ StepEvent

\* the event of a granted request
StepRequest ==
    /\ Popped("Request")
    /\ StepEvent

\* the event of a release: _trigger_put
StepRelease ==
    /\ Popped("Release")
    /\ StepEvent

\* an Interruption event: the Interrupt is thrown into the process
StepInterruption ==
    /\ Popped("Interruption")
    /\ StepEvent

\* the exception class of a failed process
ExcOf(cause) == IF cause.type \in {"Miss", "Preempted"} THEN "Interrupt" ELSE cause.type

\* the event of a terminated process: a failed one is re-raised by step();
\* Simulator.run (lines 63-65) turns an Interrupt into False
StepProcess ==
    /\ Popped("Process")
    /\ LET e == Head(queue)
       IN /\ SetWorld(step(World))
          /\ IF e.ok
             THEN UNCHANGED <<run_pc, run_result>>
             ELSE /\ run_pc' = "done"
                  /\ run_result' = IF ExcOf(e.cause) = "Interrupt" THEN "False"
                                   ELSE ExcOf(e.cause)
    /\ UNCHANGED <<speed_list, taskinfos, run_i, run_until, anVars, twin, db, ctor, fn>>

\* the until event: StopSimulation ends env.run(until=i); the loop of
\* Simulator.run goes on with i + 1 or the method returns True
StepUntil ==
    /\ Popped("Until")
    /\ LET w == step(World)
       IN IF run_i + 1 <= QCeil(run_until)
          THEN /\ SetWorld(env_run(w, run_i + 1))
               /\ run_i' = run_i + 1
               /\ UNCHANGED <<run_pc, run_result>>
          ELSE /\ SetWorld(w)
               /\ run_pc' = "done"
               /\ run_result' = "True"
               /\ UNCHANGED run_i
    /\ UNCHANGED <<speed_list, taskinfos, run_until, anVars, twin, db, ctor, fn>>

Next ==
    \/ RunStart
    \/ StepInitialize
    \/ StepTimeout
    \/ StepRequest
    \/ StepRelease
    \/ StepInterruption
    \/ StepProcess
    \/ StepUntil

Spec == Init /\ [][Next]_vars

-----------------------------------------------------------------------------
(* The platform on its own: requests, releases and cancels made from      *)
(* outside any process, as the tests of processor.py make them             *)

SimIdle ==
    /\ taskinfos = <<>>
    /\ jobs = <<>>
    /\ tasks = <<>>
    /\ run_i = 0
    /\ run_until = NoneQ
    /\ run_result = "None"

InitPlatform ==
    /\ speed_list \in Platforms
    /\ now = QInt(0) /\ eid = 0 /\ queue = <<>> /\ users = <<>>
    /\ put_queue = <<>> /\ reqs = <<>> /\ err = "none"
    /\ run_pc = "platform"
    /\ SimIdle
    /\ AnalyzerIdle
    /\ twin = NoTwin
    /\ db = EmptyDb
    /\ ctor = NoCall
    /\ fn = NoFn

PlatformFrame == UNCHANGED <<speed_list, taskinfos, run_pc, run_i, run_until,
                             run_result, anVars, twin, db, ctor, fn>>

\* platform.request(priority, preempt)
PRequest ==
    /\ run_pc = "platform" /\ err = "none"
    /\ Len(reqs) < MaxReqs
    /\ \E priority \in 0..MaxPrio, preempt \in BOOLEAN :
          SetWorld(request(World, QInt(priority), preempt))
    /\ PlatformFrame

\* platform.release(request)
PRelease ==
    /\ run_pc = "platform" /\ err = "none"
    /\ eid < MaxEvents
    /\ \E r \in 1..Len(reqs) : SetWorld(release(World, r))
    /\ PlatformFrame

\* request.cancel()
PCancel ==
    /\ run_pc = "platform" /\ err = "none"
    /\ \E r \in 1..Len(reqs) : SetWorld(cancel(World, r))
    /\ PlatformFrame

\* leaving `with request:`, Request.__exit__
PExit ==
    /\ run_pc = "platform" /\ err = "none"
    /\ eid < MaxEvents
    /\ \E r \in 1..Len(reqs) : SetWorld(request_exit(World, r))
    /\ PlatformFrame

\* env.step() on the event of a granted request
PStepRequest ==
    /\ run_pc = "platform" /\ err = "none"
    /\ queue # <<>> /\ Head(queue).kind = "Request"
    /\ SetWorld(step(World))
    /\ PlatformFrame

\* env.step() on the event of a release
PStepRelease ==
    /\ run_pc = "platform" /\ err = "none"
    /\ queue # <<>> /\ Head(queue).kind = "Release"
    /\ SetWorld(step(World))
    /\ PlatformFrame

\* env.run(until=now + 1) with nothing left to process
PTick ==
    /\ run_pc = "platform" /\ err = "none"
    /\ queue = <<>>
    /\ QLt(now, QInt(MaxTime))
    /\ now' = QAdd(now, QInt(1))
    /\ UNCHANGED <<eid, queue, users, put_queue, reqs, jobs, tasks, err>>
    /\ PlatformFrame

NextPlatform ==
    \/ PRequest
    \/ PRelease
    \/ PCancel
    \/ PExit
    \/ PStepRequest
    \/ PStepRelease
    \/ PTick

SpecPlatform == InitPlatform /\ [][NextPlatform]_vars

-----------------------------------------------------------------------------
(* The platform used by processes other than jobs, as proc of               *)
(* test_ProcessorPlatform: every request has an owning process, which       *)
(* catches the Interrupt it is sent                                         *)

ClientProc(c) == <<"Client", c>>

\* platform.request(priority, preempt) called in a process
CRequest ==
    /\ run_pc = "platform" /\ err = "none"
    /\ Len(reqs) < MaxReqs
    /\ \E c \in 1..MaxClients, priority \in 0..MaxPrio, preempt \in BOOLEAN :
          SetWorld(request([World EXCEPT !.active = ClientProc(c)],
                           QInt(priority), preempt))
    /\ PlatformFrame

\* platform.release(request) called in the process that owns the request
CRelease ==
    /\ run_pc = "platform" /\ err = "none"
    /\ eid < MaxEvents
    /\ \E r \in 1..Len(reqs) :
          SetWorld(release([World EXCEPT !.active = reqs[r].proc], r))
    /\ PlatformFrame

\* env.step(): a Release event calls _trigger_put; a Request or Interruption
\* event resumes its process, which goes on waiting
CStep ==
    /\ run_pc = "platform" /\ err = "none"
    /\ queue # <<>>
    /\ SetWorld(IF Head(queue).kind = "Release"
                THEN trigger_put([World EXCEPT !.queue = Tail(@)])
                ELSE [World EXCEPT !.queue = Tail(@)])
    /\ PlatformFrame

NextClients ==
    \/ CRequest
    \/ CRelease
    \/ CStep

SpecClients == InitPlatform /\ [][NextClients]_vars

-----------------------------------------------------------------------------
(* SchedulabilityAnalyzer, with test doubles in place of the two tests: a  *)
(* double is known by its class and by what its test() returns or raises   *)

Verdicts == {"True", "False"}
Outcomes == Verdicts \cup {"ValueError"}
TestDoubles == {[class |-> c, returns |-> v] :
                  c \in {"SufficientTest", "ExactTest"}, v \in Outcomes}

InitAnalyzer ==
    /\ speed_list = <<1>>
    /\ now = QInt(0) /\ eid = 0 /\ queue = <<>> /\ users = <<>>
    /\ put_queue = <<>> /\ reqs = <<>> /\ err = "none"
    /\ run_pc = "idle"
    /\ SimIdle
    /\ AnalyzerIdle
    /\ twin = NoTwin
    /\ db = EmptyDb
    /\ ctor = NoCall
    /\ fn = NoFn

\* an analyze that never takes the short circuit
short_circuits_never(result) == FALSE

\* line 151: if suff_test_result is True
short_circuits(result) == result = "True"

\* set_sufficient_test(test)
set_sufficient_test ==
    /\ an_pc = "idle"
    /\ \E test \in TestDoubles :
          IF test.class = "SufficientTest"
          THEN sufficient_test' = test /\ UNCHANGED an_return
          ELSE an_return' = Raised("TypeError") /\ UNCHANGED sufficient_test
    /\ UNCHANGED <<simVars, twin, db, ctor, fn, exact_test, an_pc, suff_test_result, exact_test_result,
                   an_calls>>

\* set_exact_test(test)
set_exact_test ==
    /\ an_pc = "idle"
    /\ \E test \in TestDoubles :
          IF test.class = "ExactTest"
          THEN exact_test' = test /\ UNCHANGED an_return
          ELSE an_return' = Raised("TypeError") /\ UNCHANGED exact_test
    /\ UNCHANGED <<simVars, twin, db, ctor, fn, sufficient_test, an_pc, suff_test_result,
                   exact_test_result, an_calls>>

\* an assertion that lets every configuration pass
has_test_always(suff, exact) == TRUE

\* lines 140-142: the condition of the assertion
has_test(suff, exact) == suff # NoTest \/ exact # NoTest

\* analyze, lines 140-145: the assertion and the two locals
analyze_enter ==
    /\ an_pc = "idle"
    /\ an_calls' = <<>>
    /\ suff_test_result' = "None"
    /\ exact_test_result' = "None"
    /\ IF has_test(sufficient_test, exact_test)
       THEN an_pc' = "sufficient" /\ an_return' = NoReturn
       ELSE an_pc' = "idle" /\ an_return' = Raised("AssertionError")
    /\ UNCHANGED <<simVars, twin, db, ctor, fn, sufficient_test, exact_test>>

\* analyze, lines 147-156: the sufficient test and the short circuit
analyze_sufficient ==
    /\ an_pc = "sufficient"
    /\ IF sufficient_test = NoTest
       THEN /\ an_pc' = "exact"
            /\ UNCHANGED <<suff_test_result, exact_test_result, an_calls, an_return>>
       ELSE /\ an_calls' = Append(an_calls, "sufficient_test")
            /\ IF sufficient_test.returns \notin Verdicts
               THEN /\ an_pc' = "idle"
                    /\ an_return' = Raised(sufficient_test.returns)
                    /\ UNCHANGED <<suff_test_result, exact_test_result>>
               ELSE /\ suff_test_result' = sufficient_test.returns
                    /\ IF short_circuits(sufficient_test.returns)
                       THEN /\ exact_test_result' = "True"
                            /\ an_pc' = "idle"
                            /\ an_return' = ResultDict("True", sufficient_test.returns)
                       ELSE /\ an_pc' = "exact"
                            /\ UNCHANGED <<exact_test_result, an_return>>
    /\ UNCHANGED <<simVars, twin, db, ctor, fn, sufficient_test, exact_test>>

\* analyze, lines 158-164: the exact test and the return
analyze_exact ==
    /\ an_pc = "exact"
    /\ an_pc' = "idle"
    /\ IF exact_test = NoTest
       THEN /\ an_return' = ResultDict(exact_test_result, suff_test_result)
            /\ UNCHANGED <<exact_test_result, an_calls>>
       ELSE /\ an_calls' = Append(an_calls, "exact_test")
            /\ IF exact_test.returns \notin Verdicts
               THEN /\ an_return' = Raised(exact_test.returns)
                    /\ UNCHANGED exact_test_result
               ELSE /\ exact_test_result' = exact_test.returns
                    /\ an_return' = ResultDict(exact_test.returns, suff_test_result)
    /\ UNCHANGED <<simVars, twin, db, ctor, fn, sufficient_test, exact_test, suff_test_result>>

NextAnalyzer ==
    \/ set_sufficient_test
    \/ set_exact_test
    \/ analyze_enter
    \/ analyze_sufficient
    \/ analyze_exact

SpecAnalyzer == InitAnalyzer /\ [][NextAnalyzer]_vars

-----------------------------------------------------------------------------
(* Two Simulators built from the same task list and platform: the second   *)
(* one runs, with the same until, after the run of the first has ended;    *)
(* Simulator.run is a blocking call, so their steps never interleave       *)

TwinTaskSets == {ts \in TaskSets : Len(ts) <= MaxTwinTasks}

InitTwin ==
    /\ speed_list \in Platforms
    /\ taskinfos \in TwinTaskSets
    /\ LET w == InitTasks(EmptyWorld, Len(taskinfos))
       IN /\ now = w.now /\ eid = w.eid /\ queue = w.queue /\ users = w.users
          /\ put_queue = w.put_queue /\ reqs = w.reqs /\ jobs = w.jobs
          /\ tasks = w.tasks /\ err = w.err
    /\ run_pc = "idle"
    /\ run_i = 0
    /\ run_until = NoneQ
    /\ run_result = "None"
    /\ AnalyzerIdle
    /\ twin = NewTwin
    /\ db = EmptyDb
    /\ ctor = NoCall
    /\ fn = NoFn

\* Simulator.run, lines 48-59, of a simulator given as a record
run_start(s, until) ==
    IF QFloor(s.w.now) + 1 <= QCeil(until)
    THEN [s EXCEPT !.w = env_run(s.w, QFloor(s.w.now) + 1),
                   !.run_i = QFloor(s.w.now) + 1, !.run_until = until,
                   !.run_pc = "running", !.run_result = "None"]
    ELSE [s EXCEPT !.run_until = until, !.run_pc = "done", !.run_result = "True"]

\* Simulator.run, lines 58-68: what the popped event e and the state w1 after
\* its callbacks mean for the loop of run
run_step_with(s, e, w1) ==
    IF e.kind = "Until"
    THEN IF s.run_i + 1 <= QCeil(s.run_until)
         THEN [s EXCEPT !.w = env_run(w1, s.run_i + 1), !.run_i = @ + 1]
         ELSE [s EXCEPT !.w = w1, !.run_pc = "done", !.run_result = "True"]
    ELSE IF e.kind = "Process" /\ ~e.ok
         THEN [s EXCEPT !.w = w1, !.run_pc = "done",
                        !.run_result = IF ExcOf(e.cause) = "Interrupt" THEN "False"
                                       ELSE ExcOf(e.cause)]
    ELSE IF w1.err # "none"
         THEN [s EXCEPT !.w = w1, !.run_pc = "done", !.run_result = w1.err]
    ELSE [s EXCEPT !.w = w1]

\* one Environment.step() inside Simulator.run
run_step(s) == run_step_with(s, Head(s.w.queue), step(s.w))

\* the first simulator is run once
PairRunStart ==
    /\ run_pc = "idle"
    /\ RunStart

\* the second simulator is run with the until of the first
TwinRunStart ==
    /\ run_pc = "done"
    /\ twin.run_pc = "idle"
    /\ twin' = run_start(twin, run_until)
    /\ UNCHANGED <<simVars, anVars, db, ctor, fn>>

\* one Environment.step() of the second simulator
TwinStep ==
    /\ twin.run_pc = "running"
    /\ twin.w.queue # <<>>
    /\ twin' = run_step(twin)
    /\ UNCHANGED <<simVars, anVars, db, ctor, fn>>

NextTwin ==
    \/ PairRunStart
    \/ StepInitialize
    \/ StepTimeout
    \/ StepRequest
    \/ StepRelease
    \/ StepInterruption
    \/ StepProcess
    \/ StepUntil
    \/ TwinRunStart
    \/ TwinStep

SpecTwin == InitTwin /\ [][NextTwin]_vars

-----------------------------------------------------------------------------
(* TaskStorage: the Task table, TaskID INTEGER PRIMARY KEY *)

\* the TaskInfo records handed to the storage
StoredTasks ==
    {[id |-> i, wcet |-> ti.wcet, deadline |-> ti.deadline, period |-> ti.period] :
        i \in 0..MaxTaskId, ti \in {x \in TaskInfos : TaskInfoOk(x)}}

\* the row that insert_task writes
TaskRow(task) ==
    [TaskID |-> task.id, WCET |-> task.wcet, Deadline |-> task.deadline,
     Period |-> task.period, Utilization |-> utilization(task)]

\* TaskStorage.insert_task: a plain INSERT; the PRIMARY KEY constraint makes
\* sqlite raise IntegrityError for a TaskID that is stored, and the failed
\* statement changes nothing
insert_task(d, task) ==
    IF \E r \in d.Task : r.TaskID = task.id
    THEN [d EXCEPT !.call = [op |-> "insert_task", id |-> task.id],
                   !.raised = "IntegrityError"]
    ELSE [d EXCEPT !.Task = @ \cup {TaskRow(task)},
                   !.call = [op |-> "insert_task", id |-> task.id],
                   !.raised = "none"]

InitStorage ==
    /\ speed_list = <<1>>
    /\ now = QInt(0) /\ eid = 0 /\ queue = <<>> /\ users = <<>>
    /\ put_queue = <<>> /\ reqs = <<>> /\ err = "none"
    /\ run_pc = "idle"
    /\ SimIdle
    /\ AnalyzerIdle
    /\ twin = NoTwin
    /\ db = EmptyDb
    /\ ctor = NoCall
    /\ fn = NoFn

\* SqlitePersistence.save_task(task)
save_task ==
    /\ \E task \in StoredTasks : db' = insert_task(db, task)
    /\ UNCHANGED <<simVars, anVars, twin, ctor, fn>>

\* TaskStorage.clear_table("Task")
clear_table ==
    /\ db' = [db EXCEPT !.Task = {}, !.call = [op |-> "clear_table", id |-> 0],
                        !.raised = "none"]
    /\ UNCHANGED <<simVars, anVars, twin, ctor, fn>>

NextStorage ==
    \/ save_task
    \/ clear_table

SpecStorage == InitStorage /\ [][NextStorage]_vars

-----------------------------------------------------------------------------
(* Construction: PlatformInfo, ProcessorPlatform, TaskInfo, Simulator.add_task *)

\* the speed lists a caller may pass, valid or not
SpeedLists ==
    UNION {[1..n -> 0..MaxSpeed] : n \in 0..MaxCores}

\* the TaskInfo arguments a caller may pass, valid or not
RawTaskInfos ==
    {[wcet |-> c, deadline |-> d, period |-> p] :
        c \in 0..MaxWcet, d \in 0..MaxPeriod, p \in 0..MaxPeriod}

\* a sort that leaves the list as it is
sort_none(l) == l

\* list.sort(reverse=True) on numbers, by insertion
RECURSIVE sort_reverse(_)
sort_reverse(l) ==
    IF l = <<>> THEN <<>>
    ELSE LET front == sort_reverse(SubSeq(l, 1, Len(l) - 1))
             x == l[Len(l)]
             ge == {i \in 1..Len(front) : front[i] >= x}
             k == IF ge = {} THEN 0 ELSE SetMax(ge)
         IN SubSeq(front, 1, k) \o <<x>> \o SubSeq(front, k + 1, Len(front))

\* an empty list that is left empty
default_none(l) == l

\* lines 134-135: an empty speed_list gets the single speed 1
default_speeds(l) == IF Len(l) = 0 THEN <<1>> ELSE l

\* lines 138-139 on the sorted list: speed_list[-1] <= 0 raises ValueError
\* (an empty list has no last element: IndexError)
check_speeds(l) ==
    IF l = <<>> THEN [speed_list |-> l, raised |-> "IndexError"]
    ELSE IF l[Len(l)] <= 0 THEN [speed_list |-> l, raised |-> "ValueError"]
    ELSE [speed_list |-> l, raised |-> "none"]

\* PlatformInfo(speeds): __post_init__
PlatformInfo(speeds) == check_speeds(sort_reverse(default_speeds(speeds)))

InitBoundary ==
    /\ speed_list = <<1>>
    /\ now = QInt(0) /\ eid = 0 /\ queue = <<>> /\ users = <<>>
    /\ put_queue = <<>> /\ reqs = <<>> /\ err = "none"
    /\ run_pc = "idle"
    /\ SimIdle
    /\ AnalyzerIdle
    /\ twin = NoTwin
    /\ db = EmptyDb
    /\ ctor = NoCall
    /\ fn = NoFn

\* Simulator([], PlatformInfo(speeds)): the PlatformInfo is constructed and,
\* unless that raised, a ProcessorPlatform and a Simulator without tasks on it
NewPlatform ==
    /\ \E speeds \in SpeedLists :
          /\ ctor' = [op |-> "PlatformInfo", speeds |-> speeds, task |-> <<>>,
                      raised |-> PlatformInfo(speeds).raised]
          /\ IF PlatformInfo(speeds).raised = "none"
             THEN /\ speed_list' = PlatformInfo(speeds).speed_list
                  /\ taskinfos' = <<>>
                  /\ SetWorld(EmptyWorld)
             ELSE UNCHANGED <<speed_list, taskinfos, now, eid, queue, users,
                              put_queue, reqs, jobs, tasks, err>>
    /\ UNCHANGED <<run_pc, run_i, run_until, run_result, anVars, twin, db, fn>>

\* sim.add_task(TaskInfo(id, PeriodicTask, wcet, deadline, period)): neither
\* the dataclass nor add_task looks at the numbers
add_task ==
    /\ Len(taskinfos) < MaxAdded
    /\ \E ti \in RawTaskInfos :
          /\ ctor' = [op |-> "add_task", speeds |-> <<>>, task |-> <<ti>>,
                      raised |-> "none"]
          /\ taskinfos' = Append(taskinfos,
                                 [id |-> Len(taskinfos), wcet |-> ti.wcet,
                                  deadline |-> ti.deadline, period |-> ti.period])
    /\ SetWorld(InitTasks(EmptyWorld, Len(taskinfos) + 1))
    /\ UNCHANGED <<speed_list, run_pc, run_i, run_until, run_result, anVars, twin, db, fn>>

NextBoundary ==
    \/ NewPlatform
    \/ add_task

SpecBoundary == InitBoundary /\ [][NextBoundary]_vars

-----------------------------------------------------------------------------
(* The schedulability functions called on their own *)

\* the interval lengths delta_t in (0, H] handed to _DBF: multiples of 1/DeltaDen
Deltas == {Q(n, DeltaDen) : n \in 1..(DeltaDen * hyper_period)}

\* GlobalEDFTest._DBF(tau, delta_t) for a task of the set
CallDBF ==
    /\ \E i \in 1..Len(taskinfos), delta_t \in Deltas :
          fn' = [op |-> "_DBF", arg |-> <<taskinfos[i], delta_t>>,
                 result |-> DBF(taskinfos[i], delta_t)]
    /\ UNCHANGED <<simVars, anVars, twin, db, ctor>>

\* GlobalEDFTest().test(taskset, processors)
CallTest ==
    /\ fn' = [op |-> "test", arg |-> <<>>,
              result |-> GlobalEDFTest(taskinfos, speed_list, DefaultSamplingRate)]
    /\ UNCHANGED <<simVars, anVars, twin, db, ctor>>

\* the sampling rates handed to _LOAD: 0, the default, and rates that make
\* H * sampling_rate smaller than, equal to and larger than 1
SamplingRates == {QInt(0), DefaultSamplingRate, Q(1, 2), QInt(1), QInt(RateMax)}

\* step = ceil(hyper_period * sampling_rate) of _LOAD
LOAD_step(Gamma, sampling_rate) ==
    QCeil(QMul(QInt(LcmCeilPeriods(Gamma, Len(Gamma))), sampling_rate))

\* range(1, hyper_period + 1, step) raises ValueError for a step of zero
LOAD_raised(Gamma, implicit_deadline, sampling_rate) ==
    IF ~implicit_deadline /\ LOAD_step(Gamma, sampling_rate) = 0
    THEN "ValueError" ELSE "none"

\* GlobalEDFTest._LOAD(Gamma, implicit_deadline, sampling_rate) on the task set
CallLOAD ==
    /\ Len(taskinfos) > 0
    /\ \E implicit_deadline \in BOOLEAN, sampling_rate \in SamplingRates :
          fn' = [op |-> "_LOAD", arg |-> <<implicit_deadline, sampling_rate>>,
                 result |->
                     [raised |-> LOAD_raised(taskinfos, implicit_deadline, sampling_rate),
                      value |-> IF LOAD_raised(taskinfos, implicit_deadline,
                                               sampling_rate) = "none"
                                THEN LOAD(taskinfos, implicit_deadline, sampling_rate)
                                ELSE NoneQ]]
    /\ UNCHANGED <<simVars, anVars, twin, db, ctor>>

NextSched ==
    \/ CallDBF
    \/ CallTest
    \/ CallLOAD

SpecSched == Init /\ [][NextSched]_vars

-----------------------------------------------------------------------------
(* UtilizationGenerationAlgorithm: the three generators of utilizations.   *)
(* random() returns a float of [0.0, 1.0); uniform(0, b) is b * random().   *)
(* A draw is one of the multiples of 1/DrawDen in that interval; the root   *)
(* random() ** (1.0 / k) of UUniFast, which maps [0, 1) onto itself and 0  *)
(* to 0, is drawn from the same set.                                        *)

Generators == {"UScaling", "UFitting", "UUniFast"}

\* the values of random()
Draws == {Q(k, DrawDen) : k \in 0..(DrawDen - 1)}

\* the taskset_utilization arguments, valid or not
Utilizations == {Q(k, 2) : k \in (0 - 1)..(2 * MaxUtilization)}

RECURSIVE QSum(_, _)
\* sum(l[:n])
QSum(l, n) == IF n = 0 THEN QInt(0) ELSE QAdd(QSum(l, n - 1), l[n])

\* UScaling, lines 87-89: n draws of uniform(0, U)
UScaling_drawn(U, n, r) == [i \in 1..n |-> QMul(U, r[i])]

\* UScaling, lines 91-92: the draws scaled by U / their sum
UScaling_candidate(U, n, r) ==
    [i \in 1..n |-> QMul(UScaling_drawn(U, n, r)[i],
                         QDiv(U, QSum(UScaling_drawn(U, n, r), n)))]

\* line 91 divides by sum(task_utilizations)
divides_by_zero(alg, U, n, r) ==
    alg = "UScaling" /\ QSum(UScaling_drawn(U, n, r), n) = QInt(0)

RECURSIVE UFitting_loop(_, _, _, _)
\* UFitting, lines 109-116: each draw is taken off what is left, the last
\* element is what is left
UFitting_loop(sum_U, i, n, r) ==
    IF i = n THEN <<sum_U>>
    ELSE <<QMul(sum_U, r[i])>>
         \o UFitting_loop(QSub(sum_U, QMul(sum_U, r[i])), i + 1, n, r)

RECURSIVE UUniFast_loop(_, _, _, _)
\* UUniFast, lines 133-139: nextSumU = sumU * random() ** (1.0 / (n - i))
UUniFast_loop(sumU, i, n, r) ==
    IF i = n THEN <<sumU>>
    ELSE <<QSub(sumU, QMul(sumU, r[i]))>>
         \o UUniFast_loop(QMul(sumU, r[i]), i + 1, n, r)

\* task_utilizations at the end of one turn of the loop of generator alg
candidate(alg, U, n, r) ==
    CASE alg = "UScaling" -> UScaling_candidate(U, n, r)
      [] alg = "UFitting" -> UFitting_loop(U, 1, n, r)
      [] alg = "UUniFast" -> UUniFast_loop(U, 1, n, r)

\* all(u <= fastest_speed for u in task_utilizations)
all_fit(task_utilizations, fastest_speed) ==
    \A i \in 1..Len(task_utilizations) :
        QLe(task_utilizations[i], QInt(fastest_speed))

InitGenerator ==
    /\ speed_list = <<1>>
    /\ now = QInt(0) /\ eid = 0 /\ queue = <<>> /\ users = <<>>
    /\ put_queue = <<>> /\ reqs = <<>> /\ err = "none"
    /\ run_pc = "idle"
    /\ SimIdle
    /\ AnalyzerIdle
    /\ twin = NoTwin
    /\ db = EmptyDb
    /\ ctor = NoCall
    /\ fn = NoFn

\* a call of one of the generators: the assertion on its arguments
generate_enter ==
    /\ IF fn.op \in Generators THEN fn.result.status # "running" ELSE TRUE
    /\ \E alg \in Generators, U \in Utilizations, n \in 1..MaxNumTask,
          fastest_speed \in 1..MaxSpeed :
          fn' = [op |-> alg, arg |-> <<U, n, fastest_speed>>,
                 result |-> [status |-> IF QLt(QInt(0), U) THEN "running"
                                        ELSE "AssertionError",
                             value |-> <<>>]]
    /\ UNCHANGED <<simVars, anVars, twin, db, ctor>>

\* one turn of the while True loop: a candidate is drawn, and returned if
\* every element is <= fastest_speed; otherwise the loop goes round again
generate_loop ==
    /\ fn.op \in Generators /\ fn.result.status = "running"
    /\ \E r \in [1..fn.arg[2] -> Draws] :
          fn' = IF divides_by_zero(fn.op, fn.arg[1], fn.arg[2], r)
                THEN [fn EXCEPT !.result = [status |-> "ZeroDivisionError",
                                            value |-> <<>>]]
                ELSE IF all_fit(candidate(fn.op, fn.arg[1], fn.arg[2], r), fn.arg[3])
                THEN [fn EXCEPT !.result =
                         [status |-> "returned",
                          value |-> candidate(fn.op, fn.arg[1], fn.arg[2], r)]]
                ELSE fn
    /\ UNCHANGED <<simVars, anVars, twin, db, ctor>>

NextGenerator ==
    \/ generate_enter
    \/ generate_loop

SpecGenerator == InitGenerator /\ [][NextGenerator]_vars

-----------------------------------------------------------------------------
(* SchedulabilityTestExecutor with SqlitePersistence: fn holds the call of  *)
(* execute, the position of every worker, the session that holds sqlite's   *)
(* write lock and the calls made on the persistence strategy and analyzer   *)

\* a task set of the input, as the ascending sequence of its TaskInfo ids
RECURSIVE Ascending(_)
Ascending(S) ==
    IF S = {} THEN <<>>
    ELSE LET m == CHOOSE x \in S : \A y \in S : x <= y
         IN <<m>> \o Ascending(S \ {m})

ExecTasksets == {Ascending(S) : S \in (SUBSET (0..MaxTaskId)) \ {{}}}

\* the TaskInfo with id i
ExecTask(i) == [id |-> i, wcet |-> 1, deadline |-> 1, period |-> 1]

\* SerialStrategy is one worker that takes one task set at a time;
\* ParallelStrategy(num_process, chunksize) is a Pool of workers fed by
\* imap_unordered with chunks of chunksize consecutive task sets
ExecStrategies ==
    {[name |-> "SerialStrategy", num_process |-> 1, chunksize |-> 1]}
    \cup {[name |-> "ParallelStrategy", num_process |-> p, chunksize |-> c] :
            p \in 1..MaxWorkers, c \in 1..MaxChunk}

IdleWorker == [pc |-> "idle", ts |-> 0, hi |-> 0, i |-> 0]

InitExecutor ==
    /\ speed_list = <<1>>
    /\ now = QInt(0) /\ eid = 0 /\ queue = <<>> /\ users = <<>>
    /\ put_queue = <<>> /\ reqs = <<>> /\ err = "none"
    /\ run_pc = "idle"
    /\ SimIdle
    /\ AnalyzerIdle
    /\ twin = NoTwin
    /\ db = EmptyDb
    /\ ctor = NoCall
    /\ \E strategy \in ExecStrategies,
          tasksets \in UNION {[1..n -> ExecTasksets] : n \in 1..MaxSets} :
          fn = [op |-> "execute", arg |-> <<strategy, tasksets>>,
                result |-> [status |-> "running", next |-> 1,
                            workers |-> [w \in 1..strategy.num_process |-> IdleWorker],
                            lock |-> 0, log |-> <<>>]]

ExecFrame == UNCHANGED <<simVars, anVars, twin, ctor>>

ExecRunning == fn.op = "execute" /\ fn.result.status = "running"

\* the worker is at the call pc of _analyze_and_save_taskset
ExecAt(w, pc) == ExecRunning /\ fn.result.workers[w].pc = pc

\* the call is made and recorded, and the worker moves on
ExecLogged(w, entry, pc) ==
    [fn EXCEPT !.result.log = Append(@, entry), !.result.workers[w].pc = pc]

\* execute, lines 101 and 110: a worker takes the next task sets
exec_take ==
    /\ ExecRunning
    /\ \E w \in 1..Len(fn.result.workers) :
          /\ fn.result.workers[w].pc = "idle"
          /\ fn.result.next <= Len(fn.arg[2])
          /\ fn' = [fn EXCEPT
                      !.result.workers[w] =
                          [pc |-> "connect", ts |-> fn.result.next,
                           hi |-> Min(fn.result.next + fn.arg[1].chunksize - 1,
                                      Len(fn.arg[2])),
                           i |-> 1],
                      !.result.next = Min(fn.result.next + fn.arg[1].chunksize - 1,
                                          Len(fn.arg[2])) + 1]
    /\ UNCHANGED db
    /\ ExecFrame

\* line 133: persistence_strategy.connect()
exec_connect ==
    /\ \E w \in 1..Len(fn.result.workers) :
          /\ ExecAt(w, "connect")
          /\ fn' = ExecLogged(w, <<fn.result.workers[w].ts, "connect", 0>>, "analyze")
    /\ UNCHANGED db
    /\ ExecFrame

\* line 134: result = test_analyzer.analyze(taskset, platform)
exec_analyze ==
    /\ \E w \in 1..Len(fn.result.workers) :
          /\ ExecAt(w, "analyze")
          /\ fn' = [ExecLogged(w, <<fn.result.workers[w].ts, "analyze", 0>>, "save_task")
                      EXCEPT !.result.workers[w].i = 1]
    /\ UNCHANGED db
    /\ ExecFrame

\* the next task to save of the task set the worker is at
ExecNextTask(w) == fn.arg[2][fn.result.workers[w].ts][fn.result.workers[w].i]

\* lines 135-136: persistence_strategy.save_task(task); the INSERT waits for
\* sqlite's write lock, which a session keeps until its commit; an exception
\* leaves _analyze_and_save_taskset and execute
exec_save_task ==
    /\ \E w \in 1..Len(fn.result.workers) :
          /\ ExecAt(w, "save_task")
          /\ fn.result.lock \in {0, w}
          /\ db' = insert_task(db, ExecTask(ExecNextTask(w)))
          /\ fn' = IF insert_task(db, ExecTask(ExecNextTask(w))).raised # "none"
                   THEN [fn EXCEPT !.result.status =
                            insert_task(db, ExecTask(ExecNextTask(w))).raised]
                   ELSE [ExecLogged(w, <<fn.result.workers[w].ts, "save_task",
                                         ExecNextTask(w)>>,
                                    IF fn.result.workers[w].i
                                         = Len(fn.arg[2][fn.result.workers[w].ts])
                                    THEN "save_taskset" ELSE "save_task")
                           EXCEPT !.result.workers[w].i = @ + 1,
                                  !.result.lock = w]
    /\ ExecFrame

\* line 137: persistence_strategy.save_taskset(platform, taskset, **result)
exec_save_taskset ==
    /\ \E w \in 1..Len(fn.result.workers) :
          /\ ExecAt(w, "save_taskset")
          /\ fn.result.lock \in {0, w}
          /\ fn' = [ExecLogged(w, <<fn.result.workers[w].ts, "save_taskset", 0>>, "close")
                      EXCEPT !.result.lock = w]
    /\ UNCHANGED db
    /\ ExecFrame

\* line 138: persistence_strategy.close(): commit and close; the worker goes
\* on with its chunk or is idle again
exec_close ==
    /\ \E w \in 1..Len(fn.result.workers) :
          /\ ExecAt(w, "close")
          /\ fn' = [ExecLogged(w, <<fn.result.workers[w].ts, "close", 0>>,
                               IF fn.result.workers[w].ts < fn.result.workers[w].hi
                               THEN "connect" ELSE "idle")
                      EXCEPT !.result.lock = 0,
                             !.result.workers[w].ts = @ + 1]
    /\ UNCHANGED db
    /\ ExecFrame

\* execute returns: every task set was handed out and every worker is idle
exec_return ==
    /\ ExecRunning
    /\ fn.result.next > Len(fn.arg[2])
    /\ \A w \in 1..Len(fn.result.workers) : fn.result.workers[w].pc = "idle"
    /\ fn' = [fn EXCEPT !.result.status = "returned"]
    /\ UNCHANGED db
    /\ ExecFrame

NextExecutor ==
    \/ exec_take
    \/ exec_connect
    \/ exec_analyze
    \/ exec_save_task
    \/ exec_save_taskset
    \/ exec_close
    \/ exec_return

SpecExecutor == InitExecutor /\ [][NextExecutor]_vars

-----------------------------------------------------------------------------
(* TaskSubsetFactory: the catalog is the sequence of the utilizations of   *)
(* self.tasks, sorted by the constructor; a task is named by its 0-based    *)
(* index in self.tasks                                                      *)

CatalogUtilizations == {Q(n, 2) : n \in 1..(2 * MaxUtilization)}

\* the targets handed to _select_task, some not positive
Targets == {Q(n, TargetDen) : n \in 0..(TargetDen * MaxUtilization + 2)}

\* self.tasks = sorted(tasks, key=lambda task: task.utilization)
Catalogs ==
    {c \in UNION {[1..n -> CatalogUtilizations] : n \in 1..MaxCatalog} :
        \A i \in 1..(Len(c) - 1) : QLe(c[i], c[i + 1])}

QAbsDiff(a, b) == IF QLt(a, b) THEN QSub(b, a) ELSE QSub(a, b)

\* bisect.bisect_left(a, x) on numbers; returns a 0-based index
RECURSIVE BisectLeftLoop(_, _, _, _)
BisectLeftLoop(a, x, lo, hi) ==
    IF lo < hi
    THEN LET mid == (lo + hi) \div 2
         IN IF QLt(a[mid + 1], x) THEN BisectLeftLoop(a, x, mid + 1, hi)
            ELSE BisectLeftLoop(a, x, lo, mid)
    ELSE lo

\* self.tasks[i] for a Python index i, which counts from the end when negative
PyIndex(a, i) == IF i < 0 THEN Len(a) + i ELSE i

\* _select_task with min([before, after], ...): a tie goes to the earlier index
select_task_before(task_utilizations, target_utilization) ==
    LET index == BisectLeftLoop(task_utilizations, target_utilization, 0,
                                Len(task_utilizations))
    IN IF index = Len(task_utilizations) THEN Len(task_utilizations) - 1
       ELSE LET before == PyIndex(task_utilizations, index - 1)
                after == index
            IN IF QLt(QAbsDiff(task_utilizations[after + 1], target_utilization),
                      QAbsDiff(task_utilizations[before + 1], target_utilization))
               THEN after ELSE before

\* TaskSubsetFactory._select_task(target_utilization): the index of the
\* selected task, or the exception.  The first if is followed by an if, not
\* an elif, so index 0 reaches the else branch, where before is tasks[-1];
\* min returns the first of [after, before] with the smallest key
select_task(task_utilizations, target_utilization) ==
    IF ~QLt(QInt(0), target_utilization) THEN "AssertionError"
    ELSE LET index == BisectLeftLoop(task_utilizations, target_utilization, 0,
                                     Len(task_utilizations))
         IN IF index = Len(task_utilizations) THEN Len(task_utilizations) - 1
            ELSE LET before == PyIndex(task_utilizations, index - 1)
                     after == index
                 IN IF QLe(QAbsDiff(task_utilizations[after + 1], target_utilization),
                           QAbsDiff(task_utilizations[before + 1], target_utilization))
                    THEN after ELSE before

\* TaskSubsetFactory(tasks, utilization_algorithm, platform_info)
InitSubset ==
    /\ speed_list = <<1>>
    /\ now = QInt(0) /\ eid = 0 /\ queue = <<>> /\ users = <<>>
    /\ put_queue = <<>> /\ reqs = <<>> /\ err = "none"
    /\ run_pc = "idle"
    /\ SimIdle
    /\ AnalyzerIdle
    /\ twin = NoTwin
    /\ db = EmptyDb
    /\ ctor = NoCall
    /\ \E task_utilizations \in Catalogs :
          fn = [op |-> "TaskSubsetFactory", arg |-> <<task_utilizations, NoneQ>>,
                result |-> "none"]

\* factory._select_task(target_utilization)
CallSelectTask ==
    /\ fn.op \in {"TaskSubsetFactory", "_select_task"}
    /\ \E target_utilization \in Targets :
          fn' = [op |-> "_select_task", arg |-> <<fn.arg[1], target_utilization>>,
                 result |-> select_task(fn.arg[1], target_utilization)]
    /\ UNCHANGED <<simVars, anVars, twin, db, ctor>>

SpecSubset == InitSubset /\ [][CallSelectTask]_vars

-----------------------------------------------------------------------------
(* Properties *)

Requests == 1..Len(reqs)
Holders == {users[i] : i \in 1..Len(users)}
Waiters == {put_queue[i] : i \in 1..Len(put_queue)}
ReleasePending == \E i \in 1..Len(queue) : queue[i].kind = "Release"
AllPreempt == \A r \in Requests : reqs[r].preempt
Evicted(r) == reqs[r].triggered /\ r \notin Holders /\ r \notin Waiters
Finished(j) == jobs[j].end_time # NoneQ
Late(j) == Finished(j) /\ QLt(jobs[j].absolute_deadline, jobs[j].end_time)
Jobs == 1..Len(jobs)

\* the job waits for the timeout that completes it, due at or before its deadline
CompletionDue(j) ==
    /\ jobs[j].pc = "yield_timeout"
    /\ \E i \in 1..Len(queue) :
          /\ queue[i].kind = "Timeout"
          /\ queue[i].eid = jobs[j].target
          /\ QLe(queue[i].time, jobs[j].absolute_deadline)

\* C1: when Simulator.run() with the default horizon returns true, every
\* released job whose absolute deadline lies in [0, H] has executed its whole
\* wcet at or before that deadline (a job whose completion is due exactly at
\* its deadline counts as on time)
C1_TrueOnlyIfDeadlinesMet ==
    (run_pc = "done" /\ run_result = "True" /\ run_until = QInt(hyper_period)) =>
        \A j \in Jobs :
            QLe(jobs[j].absolute_deadline, run_until) =>
                \/ Finished(j) /\ ~Late(j)
                \/ CompletionDue(j)

HoldersLowest ==
    \A u \in Holders, v \in Waiters : ~KeyLt(reqs[v], reqs[u])
HoldersCount ==
    Len(users) = Min(Len(users) + Len(put_queue), capacity)

UsersSorted ==
    \A i \in 1..Len(users), k \in 1..Len(users) :
        i < k => ~KeyLt(reqs[users[k]], reqs[users[i]])

\* C3: users never holds more than capacity requests and stays sorted by
\* key, and an append to the full, bounded users queue raises RuntimeError
\* and leaves it as it was
C3_UsersBounded ==
    /\ Len(users) <= capacity
    /\ UsersSorted
    /\ err # "RuntimeError"
    /\ Len(users) = capacity =>
         \A r \in Requests :
             SortedQueueAppend(reqs, users, r, capacity) =
                 [q |-> users, raised |-> "RuntimeError"]

\* C3 witness: a full two-core platform with distinct keys and a waiter
C3_Witness ==
    /\ capacity = 2 /\ Len(users) = 2 /\ put_queue # <<>>
    /\ KeyLt(reqs[users[1]], reqs[users[2]])
    /\ users[2] < users[1]

C5_Speed ==
    \A r \in Requests :
        /\ r \in Holders =>
             \E i \in 1..Len(users) :
                 users[i] = r /\ speed(World, r) = [tag |-> "value", v |-> speed_list[i]]
        /\ Evicted(r) => speed(World, r).tag = "None"
        /\ r \in Waiters => speed(World, r) = [tag |-> "value", v |-> 0]

\* C5 witness: requests on both cores of a heterogeneous platform beside a
\* preempted one
C5_Witness ==
    /\ speed_list = <<2, 1>> /\ Len(users) = 2
    /\ \E r \in Requests : Evicted(r) /\ KeyLt(reqs[users[2]], reqs[r])

RECURSIVE LogWork(_, _)
\* the work of the first n log entries: (end - start) * speed
LogWork(logs, n) ==
    IF n = 0 THEN QInt(0)
    ELSE QAdd(LogWork(logs, n - 1),
              QMul(QSub(logs[n].end, logs[n].start), QInt(logs[n].speed)))

\* C6: a completed job has accumulated exactly its wcet, and the work of its
\* execution intervals (length times speed) sums to its wcet
C6_WorkIsWcet ==
    \A j \in Jobs :
        Finished(j) =>
            /\ jobs[j].accumulated_execution = wcet_of(World, j)
            /\ LogWork(jobs[j].logs, Len(jobs[j].logs)) = wcet_of(World, j)

\* C6 witness: a completed job that ran at two different speeds
C6_Witness ==
    \E j \in Jobs :
        /\ Finished(j)
        /\ Len(jobs[j].logs) >= 2
        /\ jobs[j].logs[1].speed # jobs[j].logs[2].speed

\* C7: on a platform of at least two cores, a task set the G-EDF sufficient
\* test accepts is one Simulator.run() returns true for
C7_Soundness ==
    (run_pc = "done" /\ capacity >= 2
       /\ GlobalEDFTest(taskinfos, speed_list, DefaultSamplingRate) = "True")
    => run_result = "True"

\* C7 witness: an accepted set of two tasks on two cores, simulated to the end
C7_Witness ==
    /\ run_pc = "done" /\ capacity >= 2 /\ Len(taskinfos) >= 2
    /\ GlobalEDFTest(taskinfos, speed_list, DefaultSamplingRate) = "True"
    /\ run_result = "True"
    /\ \E j \in Jobs : Finished(j)

AnalyzeEnds == an_pc # "idle" /\ an_pc' = "idle"
BothTests == sufficient_test # NoTest /\ exact_test # NoTest

\* C8: with both tests configured, analyze calls the sufficient test exactly
\* once; when it says true the exact test is not called and both results are
\* true; when it says false the exact test is called exactly once, after it,
\* and the exact result is that test's verdict
C8_Analyze ==
    [][(AnalyzeEnds /\ BothTests) =>
         /\ sufficient_test.returns = "True" =>
              /\ an_calls' = <<"sufficient_test">>
              /\ an_return' = ResultDict("True", "True")
         /\ sufficient_test.returns = "False" =>
              /\ an_calls' = <<"sufficient_test", "exact_test">>
              /\ exact_test.returns \in Verdicts =>
                   an_return' = ResultDict(exact_test.returns, "False")]_vars

\* C8 witness: an analyze that went on to the exact test and returned its
\* verdict beside the sufficient test's false
C8_Witness ==
    /\ an_pc = "idle" /\ BothTests
    /\ an_calls = <<"sufficient_test", "exact_test">>
    /\ an_return = ResultDict("True", "False")

\* C9: Simulator.run returns false when a job completed after its deadline
\* during the run and true when none did; no Interrupt or other exception
\* leaves it
C9_RunResult ==
    run_pc = "done" =>
        /\ run_result \in {"True", "False"}
        /\ run_result = "False" <=> \E j \in Jobs : Late(j)

\* C9 witness: a run on two cores ended by a late completion
C9_Witness ==
    /\ run_pc = "done" /\ run_result = "False" /\ capacity = 2
    /\ \E j \in Jobs : Late(j)

\* the Interruption a late job j sends to its task
MissRaised(q, js, j) ==
    \E i \in 1..Len(q) :
        /\ q[i].kind = "Interruption"
        /\ q[i].proc = TaskProc(js[j].task)
        /\ q[i].cause.type = "Miss"
        /\ q[i].cause.job = <<taskinfos[js[j].task].id, js[j].k>>
        /\ q[i].cause.deadline = js[j].absolute_deadline

\* C10: the step in which a job completes sends its task a deadline-miss
\* interrupt, naming the job and its deadline, exactly when the completion
\* instant is later than the absolute deadline; a completion at the deadline
\* sends none
C10_MissIffLate ==
    [][\A j \in Jobs :
          (~Finished(j) /\ jobs'[j].end_time # NoneQ) =>
              IF QLt(jobs'[j].absolute_deadline, jobs'[j].end_time)
              THEN MissRaised(queue', jobs', j)
              ELSE ~MissRaised(queue', jobs', j) /\ run_pc' = "running"]_vars

\* C10 witness: a job completed exactly at its deadline with no interrupt,
\* and a later one completed late with its interrupt in flight
C10_Witness ==
    \E j \in Jobs, k \in Jobs :
        /\ Finished(j) /\ jobs[j].end_time = jobs[j].absolute_deadline
        /\ Late(k) /\ MissRaised(queue, jobs, k)

-----------------------------------------------------------------------------
(* Admission of a request among holders of equal rank *)

\* the step creates a request (platform.request)
Arrives == Len(reqs') = Len(reqs) + 1

\* holder h is preempting, has the priority of the arriving request and was
\* requested at the same or an earlier virtual time
TiedHolder(h) ==
    /\ reqs[h].preempt
    /\ reqs[h].priority = reqs'[Len(reqs')].priority
    /\ QLe(reqs[h].time, reqs'[Len(reqs')].time)

\* C11: in every step in which a preempting request arrives, every preempting
\* holder of the same priority requested at the same or an earlier time stays
\* in users; when the arrival is admitted it stands after such a holder, whose
\* index in users is unchanged
C11_TieBreak ==
    [][\A h \in Holders :
          (Arrives /\ reqs'[Len(reqs')].preempt /\ TiedHolder(h)) =>
              /\ InSeq(h, users')
              /\ InSeq(Len(reqs'), users') =>
                    /\ IndexOf(h, users') = IndexOf(h, users)
                    /\ IndexOf(h, users') < IndexOf(Len(reqs'), users')]_vars

\* an arrival was admitted behind a holder of the same key and evicted a
\* holder of lower rank
C11_Witness ==
    /\ capacity = 2 /\ Len(users) = 2 /\ Len(reqs) = 3
    /\ users = <<2, 3>>
    /\ reqs[2].preempt /\ reqs[3].preempt
    /\ reqs[2].priority = reqs[3].priority /\ reqs[2].time = reqs[3].time
    /\ Evicted(1) /\ KeyLt(reqs[3], reqs[1])

\* C12: every request is in exactly one of the states Ready, OnPlatform,
\* Preempted
C12_ExactlyOneState ==
    \A r \in Requests :
        Cardinality({s \in {"ready", "on_platform", "preempted"} :
                        \/ s = "ready" /\ is_ready(World, r)
                        \/ s = "on_platform" /\ is_on_platform(World, r)
                        \/ s = "preempted" /\ is_preempted(World, r)}) = 1

-----------------------------------------------------------------------------
(* Periodic release *)

Tasks == 1..Len(tasks)

\* the i-th entry of the jobs list of task t is the task's job number i - 1,
\* released at (i - 1) * period
ReleasedOnPeriod(t, i) ==
    LET j == tasks[t].jobs[i]
    IN /\ jobs[j].task = t
       /\ job_id(World, j) = <<taskinfos[t].id, i - 1>>
       /\ jobs[j].arrival_time = QInt((i - 1) * taskinfos[t].period)
       /\ jobs[j].absolute_deadline =
              QInt((i - 1) * taskinfos[t].period + taskinfos[t].deadline)
       /\ i > 1 => tasks[t].jobs[i - 1] < j

\* C13: the jobs list of every periodic task holds, in release order, the jobs
\* 0, 1, 2, ... of the task; job k has id (task id, k), arrival_time k * period
\* and absolute_deadline k * period + deadline; and once the clock has passed
\* k * period job k has been released, whether or not earlier jobs are done
C13_PeriodicRelease ==
    \A t \in Tasks :
        /\ \A i \in 1..Len(tasks[t].jobs) : ReleasedOnPeriod(t, i)
        /\ \A k \in 0..hyper_period :
              QLt(QInt(k * taskinfos[t].period), now) => Len(tasks[t].jobs) > k

\* a task released its third job while its first two were not finished
C13_Witness ==
    \E t \in Tasks :
        /\ Len(tasks[t].jobs) >= 3
        /\ ~Finished(tasks[t].jobs[1])
        /\ ~Finished(tasks[t].jobs[2])
        /\ jobs[tasks[t].jobs[3]].arrival_time = QInt(2 * taskinfos[t].period)

\* C14: after Simulator.run(until=T), called with T after the current time (or
\* with no T), has returned true, the clock env.now equals min(T, hyper_period)
C14_ClockAtUntil ==
    (run_pc = "done" /\ run_result = "True") => now = run_until

-----------------------------------------------------------------------------
(* Determinism *)

\* among the queued events of one instant, insertion order is pop order
FifoWithinInstant(q) ==
    \A i \in 1..Len(q), k \in 1..Len(q) :
        (i < k /\ q[i].time = q[k].time) => q[i].eid < q[k].eid

\* the same, among the events of one instant and one priority (urgent:
\* Initialize and Interruption; normal: the others)
FifoWithinPriority(q) ==
    \A i \in 1..Len(q), k \in 1..Len(q) :
        (i < k /\ q[i].time = q[k].time /\ q[i].prio = q[k].prio) =>
            q[i].eid < q[k].eid

\* the two simulators have ended their runs with the same verdict and in the
\* same state: clock, queues, requests, jobs with their logs, tasks
SameOutcome == twin.run_result = run_result /\ twin.w = World

-----------------------------------------------------------------------------
(* Storage *)

\* C16: every save of a task succeeds, whether or not its id is stored
\* already, and leaves exactly one stored row for that id
C16_SaveIdempotent ==
    db.call.op = "insert_task" =>
        /\ db.raised = "none"
        /\ Cardinality({r \in db.Task : r.TaskID = db.call.id}) = 1

-----------------------------------------------------------------------------
(* Configuration of the analyzer *)

NoTests == sufficient_test = NoTest /\ exact_test = NoTest

\* a setter has just raised TypeError
SetterRejects == an_return' = Raised("TypeError") /\ an_return' # an_return

\* C17: while neither test is set, analyze never gets past its entry: no test
\* is invoked, no result record is returned, and its call ends in the failed
\* assertion; a configured test always is of the kind of its slot, and a
\* setter that raises TypeError leaves both slots unchanged
C17_Configuration ==
    /\ [](NoTests =>
             /\ an_pc = "idle"
             /\ an_calls = <<>>
             /\ an_return \in {NoReturn, Raised("TypeError"), Raised("AssertionError")})
    /\ [](/\ sufficient_test # NoTest => sufficient_test.class = "SufficientTest"
          /\ exact_test # NoTest => exact_test.class = "ExactTest")
    /\ [][SetterRejects => UNCHANGED <<sufficient_test, exact_test>>]_vars

\* analyze was called with neither test set and raised
C17_Witness ==
    /\ NoTests
    /\ an_return = Raised("AssertionError")

-----------------------------------------------------------------------------
(* Validation at construction *)

\* how often value v occurs in list l
Count(l, v) == Cardinality({i \in 1..Len(l) : l[i] = v})

\* list a is a reordering of list b
IsPermutation(a, b) ==
    /\ Len(a) = Len(b)
    /\ \A v \in 0..(MaxSpeed + 1) : Count(a, v) = Count(b, v)

NonIncreasing(l) == \A i \in 1..(Len(l) - 1) : l[i] >= l[i + 1]

\* the last call constructed a PlatformInfo from a list with a speed <= 0
BadSpeeds == \E i \in 1..Len(ctor.speeds) : ctor.speeds[i] <= 0

\* the stored speed list is the argument, sorted non-increasing, and the
\* platform built on it has as many slots as the argument has speeds
StoredSorted ==
    /\ ctor.raised = "none"
    /\ NonIncreasing(speed_list)
    /\ IsPermutation(speed_list, ctor.speeds)
    /\ capacity = Len(ctor.speeds)

C20_TasksValid ==
    \A i \in 1..Len(taskinfos) :
        /\ 0 < taskinfos[i].deadline
        /\ taskinfos[i].deadline <= taskinfos[i].period
        /\ 0 < taskinfos[i].wcet
        /\ taskinfos[i].wcet <= speed_list[1] * taskinfos[i].deadline

\* the call of _DBF the state records
DBFCalled == fn.op = "_DBF"

\* C21: for every task with wcet > 0 and 0 < deadline <= period and every
\* interval length D in (0, H], DBF(task, D) is wcet when D < deadline and
\* (floor((D - deadline) / period) + 1) * wcet otherwise, is >= 0, and is
\* non-decreasing in D
C21_DBF ==
    DBFCalled =>
        LET tau == fn.arg[1]
            D == fn.arg[2]
        IN /\ fn.result =
                IF QLt(D, QInt(tau.deadline)) THEN tau.wcet
                ELSE (QFloor(QDiv(QSub(D, QInt(tau.deadline)), QInt(tau.period))) + 1)
                     * tau.wcet
           /\ fn.result >= 0
           /\ \A D2 \in Deltas : QLe(D, D2) => fn.result <= DBF(tau, D2)
           /\ \A D1 \in Deltas : QLe(D1, D) => DBF(tau, D1) <= fn.result

\* _DBF was asked for an interval that is not a whole number of periods past
\* the deadline and holds two jobs of the task
C21_Witness ==
    /\ DBFCalled
    /\ fn.arg[2][2] = DeltaDen
    /\ QLt(QInt(fn.arg[1].deadline + fn.arg[1].period), fn.arg[2])
    /\ fn.result = 2 * fn.arg[1].wcet

\* C22: GlobalEDFTest.test returns a boolean for every non-empty task set on
\* every platform with at least two cores (nu is 0 when no index i has
\* sum(speed_list[i:]) < mu)
C22_BooleanVerdict ==
    (fn.op = "test" /\ Len(speed_list) >= 2) => fn.result \in {"True", "False"}

OnlySufficient == sufficient_test # NoTest /\ exact_test = NoTest
OnlyExact == sufficient_test = NoTest /\ exact_test # NoTest

\* C23 as stated: with only a sufficient test configured, analyze returns
\* the sufficient verdict and an exact_test_result of None whatever the
\* verdict is; with only an exact test, suff_test_result is None and
\* exact_test_result is the exact verdict
C23_OnlyOneAlways ==
    [][/\ (AnalyzeEnds /\ OnlySufficient /\ sufficient_test.returns \in Verdicts) =>
            /\ an_return'.returned
            /\ an_return'.suff_test_result = sufficient_test.returns
            /\ an_return'.exact_test_result = "None"
       /\ (AnalyzeEnds /\ OnlyExact /\ exact_test.returns \in Verdicts) =>
            /\ an_return'.returned
            /\ an_return'.suff_test_result = "None"
            /\ an_return'.exact_test_result = exact_test.returns]_vars

\* C23: with only a sufficient test configured, analyze returns the
\* sufficient verdict, and an exact_test_result that is None when the verdict
\* is false and true when the verdict is true, without running any exact
\* test; with only an exact test, suff_test_result is None and
\* exact_test_result is the exact verdict
C23_OnlyOne ==
    [][/\ (AnalyzeEnds /\ OnlySufficient /\ sufficient_test.returns \in Verdicts) =>
            /\ an_return'.returned
            /\ an_return'.suff_test_result = sufficient_test.returns
            /\ an_return'.exact_test_result =
                  IF sufficient_test.returns = "True" THEN "True" ELSE "None"
            /\ an_calls' = <<"sufficient_test">>
       /\ (AnalyzeEnds /\ OnlyExact /\ exact_test.returns \in Verdicts) =>
            /\ an_return'.returned
            /\ an_return'.suff_test_result = "None"
            /\ an_return'.exact_test_result = exact_test.returns
            /\ an_calls' = <<"exact_test">>]_vars

\* C23 witness: an analyze with only a sufficient test returned that test's
\* false beside an exact result of None
C23_Witness ==
    /\ an_pc = "idle" /\ OnlySufficient
    /\ an_calls = <<"sufficient_test">>
    /\ an_return.returned
    /\ an_return.suff_test_result = "False"
    /\ an_return.exact_test_result = "None"

\* a generator returned on arguments with U_sum > 0, n >= 1, u_max > 0 and
\* U_sum <= n * u_max
GeneratorReturned ==
    /\ fn.op \in Generators
    /\ fn.result.status = "returned"
    /\ QLe(fn.arg[1], QInt(fn.arg[2] * fn.arg[3]))

\* C24: for U_sum > 0, n >= 1, u_max > 0 with U_sum <= n * u_max, UUniFast,
\* UScaling and UFitting return exactly n positive numbers that sum to U_sum,
\* each <= u_max; no other error than the rejection of U_sum <= 0 ends a call
C24_Generators ==
    /\ GeneratorReturned =>
          /\ Len(fn.result.value) = fn.arg[2]
          /\ \A i \in 1..Len(fn.result.value) :
                /\ QLt(QInt(0), fn.result.value[i])
                /\ QLe(fn.result.value[i], QInt(fn.arg[3]))
          /\ QSum(fn.result.value, Len(fn.result.value)) = fn.arg[1]
    /\ fn.op \in Generators =>
          /\ fn.result.status = "AssertionError" <=> QLe(fn.arg[1], QInt(0))
          /\ fn.result.status # "ZeroDivisionError"

\* every event of the current instant was processed: the next step of
\* Simulator.run moves the clock
TimeAdvances ==
    /\ run_pc = "running" /\ err = "none"
    /\ queue # <<>> /\ QLt(now, Head(queue).time)

Running(j) == jobs[j].pc = "yield_timeout"

\* the timeout the job waits for is due after remaining / speed from start
CompletionAt(j, sp) ==
    \E i \in 1..Len(queue) :
        /\ queue[i].kind = "Timeout"
        /\ queue[i].eid = jobs[j].target
        /\ queue[i].time = QAdd(jobs[j].start,
                                QDiv(remaining_execution(World, j), QInt(sp)))

\* job j was interrupted at its timeout and waits for a new one
Rescheduled(j) ==
    /\ Running(j) /\ jobs'[j].pc = "yield_timeout"
    /\ jobs'[j].target # jobs[j].target

\* C25: whenever virtual time is about to advance, a running job holds a
\* processor and the speed of its pending completion timeout is
\* speed_list[rank] for the current rank of its request in users, and a job
\* that lost its processor waits with a new request; a job whose timeout was
\* interrupted while it keeps holding credits (now - start) * old speed and
\* waits, from now, for remaining / new speed
C25_SpeedFollowsRank ==
    /\ [](TimeAdvances =>
            \A j \in Jobs :
               /\ Running(j) =>
                    /\ jobs[j].cpu \in Holders
                    /\ jobs[j].execution_speed =
                          speed_list[IndexOf(jobs[j].cpu, users)]
                    /\ CompletionAt(j, speed_list[IndexOf(jobs[j].cpu, users)])
               /\ jobs[j].pc = "yield_req" => jobs[j].req \in Waiters
               /\ jobs[j].pc \in {"yield_req", "yield_timeout", "finished"})
    /\ [][\A j \in Jobs :
            Rescheduled(j) =>
               /\ jobs'[j].accumulated_execution =
                     QAdd(jobs[j].accumulated_execution,
                          QMul(QSub(now', jobs[j].start),
                               QInt(jobs[j].execution_speed)))
               /\ jobs'[j].start = now'
               /\ jobs'[j].cpu \in {users'[i] : i \in 1..Len(users')}
               /\ jobs'[j].execution_speed =
                     speed_list[IndexOf(jobs'[j].cpu, users')]]_vars

\* C25 witness: on speeds 2 and 1 a job that ran on the slow processor was
\* moved to the fast one and waits for its completion at speed 2
C25_Witness ==
    /\ TimeAdvances /\ speed_list = <<2, 1>>
    /\ \E j \in Jobs :
          /\ Running(j)
          /\ jobs[j].logs # <<>>
          /\ jobs[j].logs[Len(jobs[j].logs)].speed = 1
          /\ jobs[j].execution_speed = 2
          /\ QLt(QInt(0), jobs[j].accumulated_execution)

\* the request that arrives in this step
Arrival == Len(reqs')

\* the number of holders whose key is not above the arrival's: its
\* insertion rank in users
InsertionRank ==
    Cardinality({i \in 1..Len(users) : ~KeyLt(reqs'[Arrival], reqs[users[i]])})

\* a preempting request arrives at a full platform with a rank below capacity
PreemptingArrival ==
    /\ Arrives /\ err' = "none"
    /\ reqs'[Arrival].preempt
    /\ Len(users) = capacity
    /\ InsertionRank < capacity

\* the last holder leaves users and is Preempted, the arrival is triggered
\* and stands at its rank, the holders before it stay and those after it
\* move down by one
EvictsLast ==
    /\ users' = SubSeq(users, 1, InsertionRank) \o <<Arrival>>
                \o SubSeq(users, InsertionRank + 1, capacity - 1)
    /\ reqs'[Arrival].triggered
    /\ reqs'[users[capacity]].triggered
    /\ ~InSeq(users[capacity], put_queue')
    /\ Len(users') = capacity

Admitted(a) == ~InSeq(a, users) /\ InSeq(a, users')

\* the Interruption events with a Preempted cause scheduled in this step
NewInterruptions ==
    {k \in 1..Len(queue') : /\ queue'[k].kind = "Interruption"
                            /\ queue'[k].eid >= eid
                            /\ queue'[k].cause.type = "Preempted"}

\* the ranks (indices of users before the step) of the holders with an
\* owning process at or after index r
Displaced(r) == {i \in r..Len(users) : reqs[users[i]].proc # NoProc}

\* C27: when a request is admitted as a holder at rank r, every holder that
\* was at rank >= r before the admission, the evicted one included, and whose
\* request has an owning process is interrupted once, with a Preempted cause
\* that names the displacing requester and that holder's own usage_since;
\* holders at rank < r receive nothing
C27_Notifications ==
    [][\A a \in 1..Len(reqs') :
          Admitted(a) =>
             /\ err' = "none"
             /\ Cardinality(NewInterruptions)
                   = Cardinality(Displaced(IndexOf(a, users')))
             /\ {<<queue'[k].proc, queue'[k].cause>> : k \in NewInterruptions}
                   = {<<reqs[users[i]].proc,
                        Preempted(reqs'[a].proc, reqs[users[i]].usage_since)>> :
                         i \in Displaced(IndexOf(a, users'))}]_vars

\* C27 witness: on two processors a job was admitted at rank 0; the holder
\* that moved down and the holder that was evicted both have their
\* interruption pending
C27_Witness ==
    /\ capacity = 2 /\ Len(users) = 2
    /\ \E a, b \in 1..Len(queue), r \in Requests :
          /\ queue[a].kind = "Interruption" /\ queue[b].kind = "Interruption"
          /\ queue[a].cause.type = "Preempted" /\ queue[b].cause.type = "Preempted"
          /\ queue[a].cause.by = reqs[users[1]].proc
          /\ queue[b].cause.by = reqs[users[1]].proc
          /\ queue[a].proc = reqs[users[2]].proc
          /\ queue[b].proc = reqs[r].proc
          /\ Evicted(r)
          /\ queue[b].cause.usage_since = reqs[r].usage_since

\* platform.release(r) is called in this step: its Release event is scheduled
ReleasedIn(r) ==
    \E k \in 1..Len(queue') :
        queue'[k].kind = "Release" /\ queue'[k].eid >= eid /\ queue'[k].rid = r

\* C28: release(request) of a holder at rank i removes it from users in the
\* same step; every holder at rank > i moves up by exactly one rank and its
\* owning process is interrupted with a Preempted notification; holders at
\* rank < i are neither moved nor notified. A release of a request that is
\* not a holder, in a step that makes no new request, changes no holder's
\* rank and notifies nobody
C28_Release ==
    [][\A r \in Requests :
          ReleasedIn(r) =>
             IF InSeq(r, users)
             THEN /\ users' = RemoveAt(users, IndexOf(r, users))
                  /\ Cardinality(NewInterruptions)
                        = Cardinality(Displaced(IndexOf(r, users) + 1))
                  /\ {<<queue'[k].proc, queue'[k].cause>> : k \in NewInterruptions}
                        = {<<reqs[users[i]].proc,
                             Preempted(reqs[r].proc, reqs[users[i]].usage_since)>> :
                              i \in Displaced(IndexOf(r, users) + 1)}
             ELSE ~Arrives => users' = users /\ NewInterruptions = {}]_vars

\* C28 witness: the holder of the fast processor of speeds 2 and 1 was
\* released, and the other holder, now at rank 0, has its notification pending
C28_Witness ==
    /\ speed_list = <<2, 1>> /\ Len(users) = 1
    /\ \E k, m \in 1..Len(queue) :
          /\ queue[k].kind = "Release" /\ ~InSeq(queue[k].rid, users)
          /\ queue[m].kind = "Interruption"
          /\ queue[m].proc = reqs[users[1]].proc
          /\ queue[m].cause = Preempted(reqs[queue[k].rid].proc,
                                        reqs[users[1]].usage_since)
          /\ KeyLt(reqs[queue[k].rid], reqs[users[1]])

\* the step processes a Release event: it was the head of the queue and is gone
ProcessesRelease ==
    /\ queue # <<>> /\ Head(queue).kind = "Release"
    /\ \A k \in 1..Len(queue') : queue'[k].eid # Head(queue).eid

\* nothing is left to process at the current instant
AboutToAdvance ==
    /\ err = "none"
    /\ \/ run_pc = "platform" /\ queue = <<>>
       \/ run_pc = "running" /\ queue # <<>> /\ QLt(now, Head(queue).time)

\* C29: the processing of a release with a free slot and a non-empty
\* put_queue promotes the lowest-keyed waiter; virtual time never advances
\* with a free slot beside a waiter; and no request is granted while a waiter
\* with a strictly smaller key is left waiting, whatever arrived since the
\* release
C29_PromotionInKeyOrder ==
    /\ [][(ProcessesRelease /\ put_queue # <<>> /\ Len(users) < capacity)
             => Admitted(put_queue[1])]_vars
    /\ [](AboutToAdvance => (put_queue # <<>> => Len(users) = capacity))
    /\ [][\A a \in 1..Len(reqs') :
             Admitted(a) =>
                \A k \in 1..Len(put_queue') :
                    ~KeyLt(reqs'[put_queue'[k]], reqs'[a])]_vars

\* C29 witness: a waiter was promoted at a later instant than it was
\* requested, ahead of a request of greater key that arrived at the instant
\* of the promotion and still waits
C29_Witness ==
    /\ run_pc = "platform" /\ queue = <<>> /\ put_queue # <<>>
    /\ \E h \in Holders :
          /\ QLt(reqs[h].time, reqs[h].usage_since)
          /\ reqs[put_queue[1]].time = reqs[h].usage_since
          /\ KeyLt(reqs[h], reqs[put_queue[1]])

\* job j waits for a processor
Waiting(j) == jobs[j].pc = "yield_req" /\ jobs[j].req \in Waiters

\* C30: in a simulation driven by jobs, whenever virtual time is about to
\* advance there is no free slot in users while a request is Ready in
\* put_queue, every running job has an absolute deadline no later than that
\* of every waiting job, and of two running jobs the one with the earlier key
\* does not run on the slower processor
C30_WorkConservingEDF ==
    TimeAdvances =>
        /\ put_queue # <<>> => Len(users) = capacity
        /\ \A h \in Holders : \E j \in Jobs : Running(j) /\ jobs[j].cpu = h
        /\ \A j, k \in Jobs :
              (Running(j) /\ Waiting(k)) =>
                  QLe(jobs[j].absolute_deadline, jobs[k].absolute_deadline)
        /\ \A j, k \in Jobs :
              (Running(j) /\ Running(k)
                 /\ KeyLt(reqs[jobs[j].cpu], reqs[jobs[k].cpu])) =>
                  jobs[j].execution_speed >= jobs[k].execution_speed

\* C30 witness: on speeds 2 and 1 both processors are busy, the job with the
\* earlier deadline on the fast one, and a third job with a later deadline
\* waits
C30_Witness ==
    /\ TimeAdvances /\ speed_list = <<2, 1>>
    /\ \E j, k, m \in Jobs :
          /\ Running(j) /\ Running(k) /\ Waiting(m)
          /\ jobs[j].execution_speed = 2 /\ jobs[k].execution_speed = 1
          /\ QLt(jobs[j].absolute_deadline, jobs[k].absolute_deadline)
          /\ QLt(jobs[k].absolute_deadline, jobs[m].absolute_deadline)

\* the requests of job j that are in users or in put_queue
ActiveRequests(j) ==
    {r \in Requests : reqs[r].proc = JobProc(j) /\ (r \in Holders \/ r \in Waiters)}

\* C31: whenever virtual time is about to advance, every released job that
\* is not complete owns exactly one active request (in users or put_queue),
\* whose priority is the job's absolute deadline, and every job that has
\* ended owns none; in every state a job has at most one active request
C31_NoRequestLeak ==
    /\ \A j \in Jobs : Cardinality(ActiveRequests(j)) <= 1
    /\ TimeAdvances =>
          \A j \in Jobs :
              IF jobs[j].pc \in {"finished", "failed"}
              THEN ActiveRequests(j) = {}
              ELSE /\ Cardinality(ActiveRequests(j)) = 1
                   /\ \A r \in ActiveRequests(j) :
                         /\ reqs[r].priority = jobs[j].absolute_deadline
                         /\ r = jobs[j].req

\* C31 witness: time is about to advance while one job has completed and
\* released its request, a job that was evicted waits with its second
\* request, and a third job runs
C31_Witness ==
    /\ TimeAdvances
    /\ \E j, k, m \in Jobs :
          /\ jobs[j].pc = "finished"
          /\ Waiting(k) /\ \E r \in Requests : r # jobs[k].req /\ reqs[r].proc = JobProc(k)
          /\ Running(m)

\* the calls made for task set number t, in the order they were made
RECURSIVE CallsFor(_, _)
CallsFor(log, t) ==
    IF log = <<>> THEN <<>>
    ELSE IF Head(log)[1] = t THEN <<<<Head(log)[2], Head(log)[3]>>>> \o CallsFor(Tail(log), t)
    ELSE CallsFor(Tail(log), t)

\* connect, analyze, save_task for each task of the set, save_taskset, close
ExpectedCalls(taskset) ==
    <<<<"connect", 0>>, <<"analyze", 0>>>>
    \o [i \in 1..Len(taskset) |-> <<"save_task", taskset[i]>>]
    \o <<<<"save_taskset", 0>>, <<"close", 0>>>>

\* C32: execute handles every task set of the input exactly once under
\* SerialStrategy and ParallelStrategy, performing for each, in this order,
\* connect, analyze, save_task for each task, save_taskset, close, and
\* returns without error, also when task sets share tasks
C32_Executor ==
    fn.op = "execute" =>
        /\ fn.result.status \in {"running", "returned"}
        /\ fn.result.status = "returned" =>
              \A t \in 1..Len(fn.arg[2]) :
                  CallsFor(fn.result.log, t) = ExpectedCalls(fn.arg[2][t])


\* the task set is an implicit-deadline one
ImplicitDeadline == \A i \in 1..Len(taskinfos) : taskinfos[i].deadline = taskinfos[i].period

\* sum of _DBF(task, D) / D for the task set
DemandRatio(D) == Q(SumDBF(taskinfos, Len(taskinfos), D), D)

\* C33: for an implicit-deadline task set the single evaluation of _LOAD at
\* H = lcm(ceil(periods)) equals the maximum over all integer D in [1, H] of
\* sum of DBF(task, D) / D, the value of the sampled computation with step 1
C33_ShortcutIsMaximum ==
    (fn.op = "_LOAD" /\ ImplicitDeadline /\ fn.arg[1]) =>
        /\ fn.result.raised = "none"
        /\ fn.result.value = QSetMax({DemandRatio(D) : D \in 1..hyper_period})

\* C34: for every sampling_rate >= 0 and every task set that is not an
\* implicit-deadline one, the sampling step is an integer >= 1 and _LOAD
\* ends with a LOAD value instead of raising
C34_SamplingStep ==
    (fn.op = "_LOAD" /\ ~ImplicitDeadline /\ ~fn.arg[1]) =>
        /\ LOAD_step(taskinfos, fn.arg[2]) >= 1
        /\ fn.result.raised = "none"


\* the 0-based bisection index: the number of catalog tasks below the target
BisectionIndex ==
    Cardinality({i \in 1..Len(fn.arg[1]) : QLt(fn.arg[1][i], fn.arg[2])})

\* C35: _select_task(u), for a non-empty sorted catalog and a target u > 0,
\* returns a catalog task whose |utilization - u| is minimal over the whole
\* catalog, also when the bisection index is 0 or len(tasks); when the two
\* neighbours are equally close the one at the later index is returned
C35_SelectTask ==
    (fn.op = "_select_task" /\ QLt(QInt(0), fn.arg[2])) =>
        /\ fn.result \in 0..(Len(fn.arg[1]) - 1)
        /\ \A i \in 1..Len(fn.arg[1]) :
              QLe(QAbsDiff(fn.arg[1][fn.result + 1], fn.arg[2]),
                  QAbsDiff(fn.arg[1][i], fn.arg[2]))
        /\ (/\ 0 < BisectionIndex
            /\ BisectionIndex < Len(fn.arg[1])
            /\ QAbsDiff(fn.arg[1][BisectionIndex], fn.arg[2])
                 = QAbsDiff(fn.arg[1][BisectionIndex + 1], fn.arg[2]))
              => fn.result = BisectionIndex

\* a target midway between two neighbours, one at or below the smallest
\* utilization of a catalog of several tasks, and one above the largest
C35_Witness ==
    /\ fn.op = "_select_task"
    /\ QLt(QInt(0), fn.arg[2])
    /\ 0 < BisectionIndex
    /\ BisectionIndex < Len(fn.arg[1])
    /\ QAbsDiff(fn.arg[1][BisectionIndex], fn.arg[2])
         = QAbsDiff(fn.arg[1][BisectionIndex + 1], fn.arg[2])
    /\ fn.result = BisectionIndex

C35_WitnessIndexZero ==
    /\ fn.op = "_select_task"
    /\ QLt(QInt(0), fn.arg[2])
    /\ BisectionIndex = 0
    /\ Len(fn.arg[1]) > 1
    /\ QLt(fn.arg[1][1], fn.arg[1][Len(fn.arg[1])])
    /\ fn.result = 0


\* the holder whose process is the target of the new interruption k leaves
\* users or changes its rank in this step
RankChanges(k) ==
    \E i \in 1..Len(users) :
        /\ reqs[users[i]].proc = queue'[k].proc
        /\ \/ ~InSeq(users[i], users')
           \/ IndexOf(users[i], users') # i

\* C36: a holder's process receives a Preempted notification only when that
\* holder's rank changes or it is evicted; a request or a release that leaves
\* the contents and order of users unchanged interrupts no holder
C36_OnlyOnRankChange ==
    [][/\ \A k \in NewInterruptions : RankChanges(k)
       /\ users' = users => NewInterruptions = {}]_vars


\* job j of the state before the step is the same job after it
SameJob(j) ==
    /\ j <= Len(jobs')
    /\ jobs'[j].task = jobs[j].task /\ jobs'[j].k = jobs[j].k
    /\ jobs'[j].arrival_time = jobs[j].arrival_time

C39_OneHolderPerTask ==
    \A j, k \in Jobs :
        (j # k /\ jobs[j].task = jobs[k].task) =>
            ~(/\ jobs[j].req \in Holders /\ reqs[jobs[j].req].proc = JobProc(j)
              /\ jobs[k].req \in Holders /\ reqs[jobs[k].req].proc = JobProc(k))

====
